---- MODULE Spec2Model ----
(***************************************************************************)
(* Model of the reminder subsystem of the bot (bot/cogs/reminders.py): the *)
(* remote reminder store, the task scheduler the cog inherits from, the    *)
(* timer coroutines, startup recovery (on_ready) and the create / edit /   *)
(* delete commands.  Every await of the code is a step boundary: a flow    *)
(* that is suspended at an await is a record whose pc names that await.    *)
(* The reaction-driven paginated view (bot/pagination.py: LinePaginator    *)
(* and ImagePaginator) is modelled the same way, with the message it shows.*)
(* So is the starboard (bot/cogs/starboard.py): the reaction handlers, the *)
(* cache star_msg_map, the remote starboard store and the two delete       *)
(* commands.                                                               *)
(***************************************************************************)
EXTENDS Integers, Sequences, FiniteSets, TLC

\* ------------------------------------------------------------------ bounds
MaxId == 2          \* reminder ids the store hands out (Spec)
MaxIdCreate == 6    \* reminder ids the store hands out (SpecCreate)
MaxInitial == 1     \* reminders already in the store when the bot starts
MaxTime == 2        \* the clock runs 0..MaxTime
MaxDur == 1         \* durations a command may ask for: 1..MaxDur
MaxTimers == 2      \* timer coroutines ever started (Spec)
MaxReady == 2       \* on_ready events delivered by the gateway
MaxCmds == 2        \* commands issued (Spec)
MaxSent == 2        \* deliveries counted per reminder (capped)
MaxPages == 3       \* pages a paginated view may have: 1..MaxPages
PageTimeout == 2    \* the timeout argument of paginate, in clock ticks
MaxAge == 4         \* ticks counted since a view's loop began (capped)
MaxLines == 3       \* lines handed to paginate: 0..MaxLines
MaxLen == 2         \* characters of a line: 1..MaxLen
MaxPerPage == 2     \* the max_lines argument: None or 1..MaxPerPage
MaxSize == 5        \* the max_size argument, in characters
MaxMsgs == 2        \* original messages that may be starred: 1..MaxMsgs
MaxStars == 2       \* star reactions counted on one message (capped)
MaxEvents == 3      \* reaction payloads the handlers are called with
MaxBoard == 3       \* messages ever posted to the starboard channel

\* ------------------------------------------------------- program constants
MAXIMUM_REMINDERS == 5

\* THRESHOLDS[LVL1_STAR]
THRESHOLD == 2

Users == {1, 2}
\* ctx.author.top_role.id in STAFF_ROLES: user 2 is staff, user 1 is not
Staff == {2}
Durations == 1..MaxDur

VARIABLES
    store,            \* remote store: reminder id -> reminder (bot/reminders)
    nextId,           \* the id the store gives to the next created reminder
    now,              \* datetime.utcnow()
    scheduled_tasks,  \* Scheduler.scheduled_tasks: key -> timer handle
    timers,           \* the _scheduled_task coroutines ever started
    ready,            \* the on_ready coroutine
    cmd,              \* the command coroutine in progress
    caps,             \* the bounds this run is explored under
    ghost,            \* history: notifications delivered per reminder
    view,             \* the paginate coroutine: its locals and position
    message,          \* the message the paginator sent, as the channel shows it
    star_msg_map,     \* Starboard.star_msg_map: the cache
    site,             \* remote starboard store: message id -> starboard message id
    board,            \* the messages ever posted to the starboard channel
    stars,            \* star reactions on each original message
    handlers,         \* the on_raw_reaction_add coroutines
    wipe,             \* the delete_all_star_entries coroutine
    entry,            \* the delete_starboard_entry coroutine
    boot              \* the async_init coroutine

starVars == <<star_msg_map, site, board, stars, handlers, wipe, entry, boot>>

vars == <<store, nextId, now, scheduled_tasks, timers, ready, cmd, caps, ghost,
          view, message, starVars>>

\* --------------------------------------------------------------- helpers
NoRem == [id |-> 0, author |-> 0, expiration |-> 0, content |-> 0]

Remove(f, k) == [x \in DOMAIN f \ {k} |-> f[x]]

RECURSIVE ToSeq(_)
ToSeq(S) ==
    IF S = {} THEN <<>>
    ELSE LET m == CHOOSE x \in S : \A y \in S : x <= y
         IN <<m>> \o ToSeq(S \ {m})

\* GET bot/reminders?active=true : every reminder still in the store
ActiveReminders ==
    LET ids == ToSeq(DOMAIN store) IN [i \in 1..Len(ids) |-> store[ids[i]]]

\* GET bot/reminders?user__id=u
RemindersOf(u) == {id \in DOMAIN store : store[id].author = u}

Bump(f, k) == [f EXCEPT ![k] = IF @ < MaxSent THEN @ + 1 ELSE @]

\* ------------------------------------------------------------- scheduler
Firing == {"send", "del1", "del2"}

\* a timer coroutine that ended (returned, raised or was cancelled) keeps
\* nothing but the id it was for
End(t, how) == [rem |-> [NoRem EXCEPT !.id = t.rem.id], pc |-> how]

\* Scheduler.schedule_task: never replaces a live entry (caller error)
ScheduleTask(st, tm, key, rem) ==
    IF key \in DOMAIN st
    THEN [st |-> st, tm |-> tm, err |-> TRUE]
    ELSE [st |-> (key :> (Len(tm) + 1)) @@ st,
          tm |-> Append(tm, [rem |-> rem, pc |-> "wait"]),
          err |-> FALSE]

\* mutant of CancelTask: cancelling a key that has no entry drops the entry
\* with the smallest key
CancelTask_UnknownDropsAnother(st, tm, key, stop) ==
    IF key \notin DOMAIN st
    THEN [st |-> IF DOMAIN st = {} THEN st
                 ELSE Remove(st, CHOOSE k \in DOMAIN st :
                                    \A j \in DOMAIN st : k <= j),
          tm |-> tm]
    ELSE LET h == st[key] IN
         [st |-> Remove(st, key),
          tm |-> [tm EXCEPT ![h] =
                    IF @.pc = "wait" THEN End(@, "cancelled")
                    ELSE IF @.pc \in Firing /\ stop THEN End(@, "cancelled")
                    ELSE @]]

\* Scheduler.cancel_task: a waiting timer is stopped before it fires; one that
\* is already past its deadline wait may or may not be stopped (stop)
CancelTask(st, tm, key, stop) ==
    IF key \notin DOMAIN st
    THEN [st |-> st, tm |-> tm]
    ELSE LET h == st[key] IN
         [st |-> Remove(st, key),
          tm |-> [tm EXCEPT ![h] =
                    IF @.pc = "wait" THEN End(@, "cancelled")
                    ELSE IF @.pc \in Firing /\ stop THEN End(@, "cancelled")
                    ELSE @]]

TimersOk(tm) == Len(tm) <= caps.timers

\* api_client.delete('bot/reminders/<id>'): 404 and transport errors raise
ApiDelete(id, ok) ==
    IF ok /\ id \in DOMAIN store
    THEN [ok |-> TRUE, store |-> Remove(store, id)]
    ELSE [ok |-> FALSE, store |-> store]

\* ----------------------------------------------------------------- clock
Tick ==
    /\ now < MaxTime
    /\ now' = now + 1
    /\ UNCHANGED <<store, nextId, scheduled_tasks, timers, ready, cmd, caps, ghost, view, message, starVars>>

\* ------------------------------------------------- _scheduled_task (timer)
\* mutant of TimerWake: a timer cancelled during its wait wakes all the same
TimerWake_WakesCancelled(h) ==
    /\ timers[h].pc \in {"wait", "cancelled"}
    /\ now >= timers[h].rem.expiration
    /\ timers' = [timers EXCEPT ![h].pc = "send"]
    /\ UNCHANGED <<store, nextId, now, scheduled_tasks, ready, cmd, caps, ghost, view, message, starVars>>

\* await wait_until(reminder_datetime) returns
TimerWake(h) ==
    /\ timers[h].pc = "wait"
    /\ now >= timers[h].rem.expiration
    /\ timers' = [timers EXCEPT ![h].pc = "send"]
    /\ UNCHANGED <<store, nextId, now, scheduled_tasks, ready, cmd, caps, ghost, view, message, starVars>>

\* mutant of TimerSend: a failed channel.send is swallowed and the remote
\* delete follows
TimerSend_DeletesAfterFailedSend(h, ok) ==
    /\ timers[h].pc = "send"
    /\ timers' = [timers EXCEPT ![h].pc = "del1"]
    /\ ghost' = [ghost EXCEPT !.sent =
                    IF ok THEN Bump(@, timers[h].rem.id) ELSE @]
    /\ UNCHANGED <<store, nextId, now, scheduled_tasks, ready, cmd, caps, view, message, starVars>>

\* send_reminder: await channel.send(...) returns or raises
TimerSend(h, ok) ==
    /\ timers[h].pc = "send"
    /\ timers' = [timers EXCEPT ![h] =
                     IF ok THEN [@ EXCEPT !.pc = "del1"] ELSE End(@, "failed")]
    /\ ghost' = [ghost EXCEPT !.sent =
                    IF ok THEN Bump(@, timers[h].rem.id) ELSE @]
    /\ UNCHANGED <<store, nextId, now, scheduled_tasks, ready, cmd, caps, view, message, starVars>>

\* send_reminder -> _delete_reminder: the remote delete returns or raises;
\* on success cancel_task(id) runs and _scheduled_task goes on to its own
\* _delete_reminder call
TimerDel1(h, ok, stop) ==
    /\ timers[h].pc = "del1"
    /\ LET id == timers[h].rem.id
           d == ApiDelete(id, ok)
           c == CancelTask(scheduled_tasks,
                           [timers EXCEPT ![h].pc = "del2"], id, stop)
       IN  /\ store' = d.store
           /\ IF d.ok
              THEN scheduled_tasks' = c.st /\ timers' = c.tm
              ELSE /\ timers' = [timers EXCEPT ![h] = End(@, "failed")]
                   /\ UNCHANGED scheduled_tasks
    /\ UNCHANGED <<nextId, now, ready, cmd, caps, ghost, view, message, starVars>>

\* _scheduled_task -> _delete_reminder, then the final cancel_task(id)
TimerDel2(h, ok) ==
    /\ timers[h].pc = "del2"
    /\ LET id == timers[h].rem.id
           d == ApiDelete(id, ok)
           c1 == CancelTask(scheduled_tasks,
                            [timers EXCEPT ![h] = End(@, "done")], id, FALSE)
           c2 == CancelTask(c1.st, c1.tm, id, FALSE)
       IN  /\ store' = d.store
           /\ IF d.ok
              THEN scheduled_tasks' = c2.st /\ timers' = c2.tm
              ELSE /\ timers' = [timers EXCEPT ![h] = End(@, "failed")]
                   /\ UNCHANGED scheduled_tasks
    /\ UNCHANGED <<nextId, now, ready, cmd, caps, ghost, view, message, starVars>>

\* ---------------------------------------------------------------- on_ready

IdleReady == [pc |-> "idle", now |-> 0, resp |-> <<>>, i |-> 0,
              calls |-> <<>>, sched |-> {}, runs |-> 0]

\* mutant of RunLoop: a reminder due exactly now is treated as overdue
RECURSIVE RunLoop_DueNowIsOverdue(_, _, _, _, _)
RunLoop_DueNowIsOverdue(st, tm, rd, i, raises) ==
    IF i > Len(rd.resp)
    THEN [st |-> st, tm |-> tm,
          rd |-> [rd EXCEPT !.pc = "done", !.i = i]]
    ELSE LET rem == rd.resp[i] IN
         IF rem.expiration <= rd.now
         THEN [st |-> st, tm |-> tm,
               rd |-> [rd EXCEPT !.pc = "send", !.i = i,
                          !.calls = Append(@, [id |-> rem.id,
                                               late |-> rd.now - rem.expiration])]]
         ELSE LET s == ScheduleTask(st, tm, rem.id, rem) IN
              IF s.err /\ raises
              THEN [st |-> st, tm |-> tm,
                    rd |-> [rd EXCEPT !.pc = "failed", !.i = i]]
              ELSE RunLoop_DueNowIsOverdue(s.st, s.tm,
                           [rd EXCEPT !.sched = @ \cup {rem.id}], i + 1, raises)

\* the for loop of on_ready from reminder i on, up to its next await:
\* pending reminders are scheduled, the first overdue one is fired
RECURSIVE RunLoop(_, _, _, _, _)
RunLoop(st, tm, rd, i, raises) ==
    IF i > Len(rd.resp)
    THEN [st |-> st, tm |-> tm,
          rd |-> [rd EXCEPT !.pc = "done", !.i = i]]
    ELSE LET rem == rd.resp[i] IN
         IF rem.expiration < rd.now
         THEN [st |-> st, tm |-> tm,
               rd |-> [rd EXCEPT !.pc = "send", !.i = i,
                          !.calls = Append(@, [id |-> rem.id,
                                               late |-> rd.now - rem.expiration])]]
         ELSE LET s == ScheduleTask(st, tm, rem.id, rem) IN
              IF s.err /\ raises
              THEN [st |-> st, tm |-> tm,
                    rd |-> [rd EXCEPT !.pc = "failed", !.i = i]]
              ELSE RunLoop(s.st, s.tm, [rd EXCEPT !.sched = @ \cup {rem.id}],
                           i + 1, raises)

\* the gateway delivers on_ready: the GET of the active reminders is issued
ReadyStart ==
    /\ ready.pc \in {"idle", "done", "failed"}
    /\ ready.runs < MaxReady
    /\ ready' = [IdleReady EXCEPT !.pc = "get", !.runs = ready.runs + 1]
    /\ UNCHANGED <<store, nextId, now, scheduled_tasks, timers, cmd, caps, ghost, view, message, starVars>>

\* the GET returns (or raises); now is read and the loop runs to its first await
ReadyGet(ok, raises) ==
    /\ ready.pc = "get"
    /\ IF ok
       THEN LET r == RunLoop(scheduled_tasks, timers,
                             [ready EXCEPT !.now = now, !.resp = ActiveReminders],
                             1, raises)
            IN  /\ TimersOk(r.tm)
                /\ scheduled_tasks' = r.st
                /\ timers' = r.tm
                /\ ready' = r.rd
       ELSE /\ ready' = [ready EXCEPT !.pc = "failed"]
            /\ UNCHANGED <<scheduled_tasks, timers>>
    /\ UNCHANGED <<store, nextId, now, cmd, caps, ghost, view, message, starVars>>

\* send_reminder(reminder, late): await channel.send(...) returns or raises
ReadySend(ok) ==
    /\ ready.pc = "send"
    /\ ready' = [ready EXCEPT !.pc = IF ok THEN "del" ELSE "failed"]
    /\ ghost' = [ghost EXCEPT !.sent =
                    IF ok THEN Bump(@, ready.resp[ready.i].id) ELSE @]
    /\ UNCHANGED <<store, nextId, now, scheduled_tasks, timers, cmd, caps, view, message, starVars>>

\* send_reminder -> _delete_reminder returns (or raises); the loop goes on
ReadyDel(ok, stop, raises) ==
    /\ ready.pc = "del"
    /\ LET id == ready.resp[ready.i].id
           d == ApiDelete(id, ok)
           c == CancelTask(scheduled_tasks, timers, id, stop)
           r == RunLoop(c.st, c.tm, ready, ready.i + 1, raises)
       IN  /\ store' = d.store
           /\ IF d.ok
              THEN /\ TimersOk(r.tm)
                   /\ scheduled_tasks' = r.st
                   /\ timers' = r.tm
                   /\ ready' = r.rd
              ELSE /\ ready' = [ready EXCEPT !.pc = "failed"]
                   /\ UNCHANGED <<scheduled_tasks, timers>>
    /\ UNCHANGED <<nextId, now, cmd, caps, ghost, view, message, starVars>>

\* ---------------------------------------------------------------- commands
IdleCmd == [pc |-> "idle", kind |-> "none", author |-> 0, exp |-> 0,
            rem |-> NoRem, result |-> "none", n |-> 0]

\* a command is dispatched: none is in progress (and the run's budget allows it)
CmdFree == cmd.pc \in {"idle", "done"} /\ cmd.n < caps.cmds

Begin(kind) == [IdleCmd EXCEPT !.kind = kind, !.n = cmd.n + 1]

Finish(c, res) ==
    [IdleCmd EXCEPT !.pc = "done", !.kind = c.kind, !.result = res, !.n = c.n]

\* mutant of NewCheck: the limit is checked after the reminder was posted
NewCheck_PostsBeforeLimit(u, whitelisted, dur, ok) ==
    /\ CmdFree
    /\ LET c == [Begin("new") EXCEPT !.author = u, !.exp = now + dur]
           over == /\ u \notin Staff /\ whitelisted /\ ok
                   /\ Cardinality(RemindersOf(u)) > MAXIMUM_REMINDERS
           rem == [id |-> nextId, author |-> u, expiration |-> now + dur,
                   content |-> 0]
       IN  /\ cmd' = IF u \notin Staff
                     THEN IF ~whitelisted
                          THEN Finish(c, "PermissionDenied")
                          ELSE IF ~ok THEN Finish(c, "TransportError")
                          ELSE IF over
                               THEN Finish(c, "LimitExceeded")
                               ELSE [c EXCEPT !.pc = "post"]
                     ELSE [c EXCEPT !.pc = "post"]
           /\ store' = IF over THEN (nextId :> rem) @@ store ELSE store
           /\ nextId' = IF over THEN nextId + 1 ELSE nextId
    /\ UNCHANGED <<now, scheduled_tasks, timers, ready, caps, ghost, view, message, starVars>>

\* new_reminder up to the answer of its first await: the permission gate, the
\* GET of the author's reminders (returns or raises) and the limit check
NewCheck(u, whitelisted, dur, ok) ==
    /\ CmdFree
    /\ LET c == [Begin("new") EXCEPT !.author = u, !.exp = now + dur]
       IN  cmd' = IF u \notin Staff
                  THEN IF ~whitelisted
                       THEN Finish(c, "PermissionDenied")
                       ELSE IF ~ok THEN Finish(c, "TransportError")
                       ELSE IF Cardinality(RemindersOf(u)) > MAXIMUM_REMINDERS
                            THEN Finish(c, "LimitExceeded")
                            ELSE [c EXCEPT !.pc = "post"]
                  ELSE [c EXCEPT !.pc = "post"]
    /\ UNCHANGED <<store, nextId, now, scheduled_tasks, timers, ready, caps, ghost, view, message, starVars>>

\* the POST returns the stored reminder (or raises)
NewPost(ok) ==
    /\ cmd.pc = "post"
    /\ ok => nextId <= caps.ids
    /\ LET rem == [id |-> nextId, author |-> cmd.author,
                   expiration |-> cmd.exp, content |-> 0]
       IN  IF ok
           THEN /\ store' = (nextId :> rem) @@ store
                /\ nextId' = nextId + 1
                /\ cmd' = [cmd EXCEPT !.pc = "confirm", !.rem = rem]
           ELSE /\ cmd' = Finish(cmd, "TransportError")
                /\ UNCHANGED <<store, nextId>>
    /\ UNCHANGED <<now, scheduled_tasks, timers, ready, caps, ghost, view, message, starVars>>

\* _send_confirmation returns (or raises), then schedule_task(key, reminder)
NewScheduleKeyed(key, ok) ==
    /\ cmd.pc = "confirm"
    /\ cmd.kind = "new"
    /\ LET s == ScheduleTask(scheduled_tasks, timers, key, cmd.rem)
       IN  IF ok
           THEN /\ TimersOk(s.tm)
                /\ scheduled_tasks' = s.st
                /\ timers' = s.tm
                /\ cmd' = Finish(cmd, "ok")
           ELSE /\ cmd' = Finish(cmd, "failed")
                /\ UNCHANGED <<scheduled_tasks, timers>>
    /\ UNCHANGED <<store, nextId, now, ready, caps, ghost, view, message, starVars>>

\* mutant of NewSchedule: the timer is filed under the author's id
NewSchedule_KeyedByAuthor(ok) == NewScheduleKeyed(cmd.rem["author"], ok)

NewSchedule(ok) == NewScheduleKeyed(cmd.rem["id"], ok)

\* mutant of EditPatch: a PATCH answered with 404 still files a timer under
\* the id
EditPatch_SchedulesMissing(id, field, dur, ok) ==
    /\ CmdFree
    /\ LET c == Begin("edit")
           s == ScheduleTask(scheduled_tasks, timers, id, [NoRem EXCEPT !.id = id])
       IN
       IF ok /\ id \in DOMAIN store
       THEN LET rem == IF field = "expiration"
                       THEN [store[id] EXCEPT !.expiration = now + dur]
                       ELSE [store[id] EXCEPT !.content = 1]
            IN  /\ store' = [store EXCEPT ![id] = rem]
                /\ cmd' = [c EXCEPT !.pc = "confirm", !.rem = rem]
                /\ UNCHANGED <<scheduled_tasks, timers>>
       ELSE /\ cmd' = Finish(c, IF ok THEN "NotFound" ELSE "TransportError")
            /\ scheduled_tasks' = IF ok THEN s.st ELSE scheduled_tasks
            /\ timers' = IF ok THEN s.tm ELSE timers
            /\ UNCHANGED store
    /\ UNCHANGED <<nextId, now, ready, caps, ghost, view, message, starVars>>

\* mutant of EditPatch: the old entry is cancelled before the PATCH is sent
EditPatch_CancelsBeforePatch(id, field, dur, ok) ==
    /\ CmdFree
    /\ LET c == Begin("edit")
           k == CancelTask(scheduled_tasks, timers, id, FALSE)
       IN
       /\ scheduled_tasks' = k.st
       /\ timers' = k.tm
       /\ IF ok /\ id \in DOMAIN store
          THEN LET rem == IF field = "expiration"
                          THEN [store[id] EXCEPT !.expiration = now + dur]
                          ELSE [store[id] EXCEPT !.content = 1]
               IN  /\ store' = [store EXCEPT ![id] = rem]
                   /\ cmd' = [c EXCEPT !.pc = "confirm", !.rem = rem]
          ELSE /\ cmd' = Finish(c, IF ok THEN "NotFound" ELSE "TransportError")
               /\ UNCHANGED store
    /\ UNCHANGED <<nextId, now, ready, caps, ghost, view, message, starVars>>

\* edit_reminder_duration / edit_reminder_content: the PATCH returns the
\* updated reminder, or raises (404, transport error)
EditPatch(id, field, dur, ok) ==
    /\ CmdFree
    /\ LET c == Begin("edit") IN
       IF ok /\ id \in DOMAIN store
       THEN LET rem == IF field = "expiration"
                       THEN [store[id] EXCEPT !.expiration = now + dur]
                       ELSE [store[id] EXCEPT !.content = 1]
            IN  /\ store' = [store EXCEPT ![id] = rem]
                /\ cmd' = [c EXCEPT !.pc = "confirm", !.rem = rem]
       ELSE /\ cmd' = Finish(c, IF ok THEN "NotFound" ELSE "TransportError")
            /\ UNCHANGED store
    /\ UNCHANGED <<nextId, now, scheduled_tasks, timers, ready, caps, ghost, view, message, starVars>>

\* mutant of RescheduleReminder: the old entry is dropped from the map but its
\* task is not cancelled
RescheduleReminder_DropsEntry(st, tm, rem, stop) ==
    ScheduleTask(IF rem["id"] \in DOMAIN st THEN Remove(st, rem["id"]) ELSE st,
                 tm, rem["id"], rem)

\* mutant of RescheduleReminder: cancel_task is not called
RescheduleReminder_NoCancel(st, tm, rem, stop) ==
    ScheduleTask(st, tm, rem["id"], rem)

\* _reschedule_reminder: cancel_task(id) then schedule_task(id, reminder)
RescheduleReminder(st, tm, rem, stop) ==
    LET c == CancelTask(st, tm, rem["id"], stop)
    IN  ScheduleTask(c.st, c.tm, rem["id"], rem)

\* _send_confirmation returns (or raises), then _reschedule_reminder
EditReschedule(ok, stop) ==
    /\ cmd.pc = "confirm"
    /\ cmd.kind = "edit"
    /\ LET s == RescheduleReminder(scheduled_tasks, timers, cmd.rem, stop)
       IN  IF ok
           THEN /\ TimersOk(s.tm)
                /\ scheduled_tasks' = s.st
                /\ timers' = s.tm
                /\ cmd' = Finish(cmd, "ok")
           ELSE /\ cmd' = Finish(cmd, "failed")
                /\ UNCHANGED <<scheduled_tasks, timers>>
    /\ UNCHANGED <<store, nextId, now, ready, caps, ghost, view, message, starVars>>

\* delete_reminder -> _delete_reminder: the DELETE returns (then
\* cancel_task(id)) or raises
DelDelete(id, ok, stop) ==
    /\ CmdFree
    /\ LET d == ApiDelete(id, ok)
           c == CancelTask(scheduled_tasks, timers, id, stop)
           k == Begin("delete")
       IN  /\ store' = d.store
           /\ IF d.ok
              THEN /\ scheduled_tasks' = c.st
                   /\ timers' = c.tm
                   /\ cmd' = [k EXCEPT !.pc = "confirm"]
              ELSE /\ cmd' = Finish(k, IF ok THEN "NotFound" ELSE "TransportError")
                   /\ UNCHANGED <<scheduled_tasks, timers>>
    /\ UNCHANGED <<nextId, now, ready, caps, ghost, view, message, starVars>>

\* _send_confirmation returns or raises
DelConfirm(ok) ==
    /\ cmd.pc = "confirm"
    /\ cmd.kind = "delete"
    /\ cmd' = Finish(cmd, IF ok THEN "ok" ELSE "failed")
    /\ UNCHANGED <<store, nextId, now, scheduled_tasks, timers, ready, caps, ghost, view, message, starVars>>

\* ------------------------------------------------------- starboard: state
\* None, where the code has an id or a message
None == 0

\* self.star_msg_map = {}
NoCache == [kind |-> "dict", map |-> <<>>]

\* self.star_msg_map = []
ListCache == [kind |-> "list", map |-> <<>>]

\* an on_raw_reaction_add (add) or on_raw_reaction_remove coroutine: the
\* message it is for, the star count of the original it fetched, the
\* starboard message it holds, the caller of post_to_api, the exception that
\* ended it
IdleHandler == [pc |-> "idle", add |-> TRUE, m |-> None, count |-> 0,
                star |-> None, from |-> "none", error |-> "none"]

NoReaction == [here |-> FALSE, emoji |-> "none", user |-> "none"]

\* delete_all_star_entries: the reaction wait_for returned, whether an event
\* failed the check, how the command ended
IdleWipe == [pc |-> "idle", event |-> NoReaction, ignored |-> FALSE,
             res |-> "none"]

\* delete_starboard_entry: msg_id, original_id, star_msg_id, the id its
\* DELETE request carried (sent: whether it was issued)
IdleEntry == [pc |-> "idle", msg_id |-> None, original_id |-> None,
              star |-> None, sent |-> FALSE, deleted |-> None, error |-> "none"]

\* async_init, and the number of payloads the gateway has delivered
IdleBoot == [pc |-> "idle", error |-> "none", events |-> 0]

\* the id of the k-th message posted to the starboard channel
StarId(k) == MaxMsgs + k

\* no starboard cog is loaded
StarIdle ==
    /\ star_msg_map = NoCache
    /\ site = <<>>
    /\ board = <<>>
    /\ stars = [m \in 1..MaxMsgs |-> 0]
    /\ handlers = <<>>
    /\ wipe = IdleWipe
    /\ entry = IdleEntry
    /\ boot = IdleBoot

\* ------------------------------------------------------- specifications
\* no paginated view exists
NoMessage == [sent |-> FALSE, desc |-> -1, footer |-> 0, reactions |-> <<>>,
              byUser |-> {}]

NoEvent == [here |-> FALSE, emoji |-> "none", user |-> "none"]

NoArgs == [cls |-> "none", lines |-> <<>>, max_lines |-> 0, max_size |-> 0,
           empty |-> FALSE, prefix |-> <<>>, suffix |-> <<>>,
           restrict_to_user |-> FALSE, exception_on_empty_embed |-> FALSE]

IdleView == [pc |-> "idle", cls |-> "none", n |-> 0, current_page |-> 0,
             reaction |-> "none", waited |-> 0, age |-> 0,
             args |-> NoArgs, pages |-> <<>>, error |-> "none", event |-> NoEvent]

InitialStores ==
    UNION {[1..k -> [id : {0}, author : {1}, expiration : Durations,
                     content : {0}]] : k \in 0..MaxInitial}

InitWith(ids, tms, cmds, users, durs, oks) ==
    /\ \E f \in InitialStores :
          /\ store = [i \in DOMAIN f |-> [f[i] EXCEPT !.id = i]]
          /\ nextId = Len(f) + 1
    /\ now = 0
    /\ scheduled_tasks = <<>>
    /\ timers = <<>>
    /\ ready = IdleReady
    /\ cmd = IdleCmd
    /\ caps = [ids |-> ids, timers |-> tms, cmds |-> cmds, users |-> users,
               durs |-> durs, oks |-> oks]
    /\ ghost = [sent |-> [i \in 1..ids |-> 0]]
    /\ view = IdleView
    /\ message = NoMessage
    /\ StarIdle

Init == InitWith(MaxId, MaxTimers, MaxCmds, {1}, Durations, BOOLEAN)

TimerStep ==
    \/ \E h \in DOMAIN timers : TimerWake(h)
    \/ \E h \in DOMAIN timers, ok \in caps.oks : TimerSend(h, ok)
    \/ \E h \in DOMAIN timers, ok \in caps.oks, stop \in BOOLEAN : TimerDel1(h, ok, stop)
    \/ \E h \in DOMAIN timers, ok \in caps.oks : TimerDel2(h, ok)

ReadyStep ==
    \/ ReadyStart
    \/ \E ok \in caps.oks, raises \in BOOLEAN : ReadyGet(ok, raises)
    \/ \E ok \in caps.oks : ReadySend(ok)
    \/ \E ok \in caps.oks, stop \in BOOLEAN, raises \in BOOLEAN :
          ReadyDel(ok, stop, raises)

NewStep ==
    \/ \E u \in caps.users, w \in BOOLEAN, dur \in caps.durs, ok \in caps.oks :
          NewCheck(u, w, dur, ok)
    \/ \E ok \in caps.oks : NewPost(ok)
    \/ \E ok \in caps.oks : NewSchedule(ok)

EditStep ==
    \/ \E id \in 1..caps.ids, f \in {"expiration", "content"}, dur \in caps.durs,
          ok \in caps.oks : EditPatch(id, f, dur, ok)
    \/ \E ok \in caps.oks, stop \in BOOLEAN : EditReschedule(ok, stop)

DelStep ==
    \/ \E id \in 1..caps.ids, ok \in caps.oks, stop \in BOOLEAN : DelDelete(id, ok, stop)
    \/ \E ok \in caps.oks : DelConfirm(ok)

Next == Tick \/ TimerStep \/ ReadyStep \/ NewStep \/ EditStep \/ DelStep

Spec == Init /\ [][Next]_vars

\* the same program when no remote call and no send fails
InitOk == InitWith(MaxId, MaxTimers, MaxCmds, {1}, Durations, {TRUE})

SpecOk == InitOk /\ [][Next]_vars

\* reminders that are created and fired, never edited nor deleted by a command
NextFire == Tick \/ TimerStep \/ ReadyStep \/ NewStep

SpecFire == InitOk /\ [][NextFire]_vars

\* create commands only, one after the other, by a staff and a non-staff user;
\* the clock stands still, so one duration stands for all
InitCreate ==
    InitWith(MaxIdCreate, MaxIdCreate, MaxIdCreate + 2, Users, {1}, BOOLEAN)

NextCreate == NewStep

SpecCreate == InitCreate /\ [][NextCreate]_vars

\* ------------------------------------------------------------- paginator
FIRST_EMOJI == "first"
LEFT_EMOJI == "left"
RIGHT_EMOJI == "right"
LAST_EMOJI == "last"
DELETE_EMOJI == "delete"

PAGINATION_EMOJI ==
    <<FIRST_EMOJI, LEFT_EMOJI, RIGHT_EMOJI, LAST_EMOJI, DELETE_EMOJI>>

Emoji == {PAGINATION_EMOJI[i] : i \in DOMAIN PAGINATION_EMOJI}

remVars == <<store, nextId, now, scheduled_tasks, timers, ready, cmd, caps, ghost>>

\* the coroutine left paginate through exception err
Throws(v, err) == [v EXCEPT !.pc = "raised", !.error = err]

\* an awaited call to Discord failed: the exception leaves paginate
Raised(v) == Throws(v, "HTTPException")

\* ---- packing: characters are numbers, a text is a sequence of characters
NEWLINE == 0
PrefixChar == -1
SuffixChar == -2
PlaceholderChar == -3

\* the i-th line handed to paginate, len characters long
Text(i, len) == [k \in 1..len |-> i]

\* "(nothing to display)" / "(no images to display)"
Placeholder == <<PlaceholderChar>>

\* '\n'.join(parts)
RECURSIVE Join(_)
Join(parts) ==
    IF parts = <<>> THEN <<>>
    ELSE IF Len(parts) = 1 THEN parts[1]
    ELSE parts[1] \o <<NEWLINE>> \o Join(Tail(parts))

\* LinePaginator.__init__
LinePaginatorInit(prefix, suffix, max_size, max_lines) ==
    [prefix |-> prefix, suffix |-> suffix,
     max_size |-> max_size - Len(suffix), max_lines |-> max_lines,
     current_page |-> <<prefix>>, linecount |-> 0,
     count |-> Len(prefix) + 1, pages |-> <<>>]

\* ImagePaginator.__init__ (Paginator.__init__ with its default max_size)
ImagePaginatorInit(prefix, suffix) ==
    [prefix |-> prefix, suffix |-> suffix,
     max_size |-> 2000 - Len(suffix), max_lines |-> 0,
     current_page |-> <<prefix>>, linecount |-> 0,
     count |-> Len(prefix) + 1, pages |-> <<>>]

\* Paginator.close_page: the suffix is appended, the page is joined and
\* stored, a new page starts with the prefix
ClosePage(pg) ==
    [pg EXCEPT !.pages = Append(@, Join(Append(pg.current_page, pg.suffix))),
               !.current_page = <<pg.prefix>>,
               !.count = Len(pg.prefix) + 1]

\* mutant of AddLine: a line that closes the page by its size is not appended
AddLine_DropsLineOnSizeClose(pg, line, empty) ==
    IF Len(line) > pg.max_size - Len(pg.prefix) - 2
    THEN [raised |-> TRUE, pg |-> pg]
    ELSE LET a == IF pg.max_lines = 0 THEN pg
                  ELSE LET c == IF pg.linecount >= pg.max_lines
                                THEN ClosePage([pg EXCEPT !.linecount = 0])
                                ELSE pg
                       IN  [c EXCEPT !.linecount = @ + 1]
             b == IF a.count + Len(line) + 1 > a.max_size THEN ClosePage(a) ELSE a
             c == IF a.count + Len(line) + 1 > a.max_size THEN b
                  ELSE [b EXCEPT !.count = @ + Len(line) + 1,
                                 !.current_page = Append(@, line)]
         IN  [raised |-> FALSE,
              pg |-> IF empty
                     THEN [c EXCEPT !.current_page = Append(@, <<>>),
                                    !.count = @ + 1]
                     ELSE c]

\* LinePaginator.add_line (max_lines = 0 stands for None)
AddLine(pg, line, empty) ==
    IF Len(line) > pg.max_size - Len(pg.prefix) - 2
    THEN [raised |-> TRUE, pg |-> pg]
    ELSE LET a == IF pg.max_lines = 0 THEN pg
                  ELSE LET c == IF pg.linecount >= pg.max_lines
                                THEN ClosePage([pg EXCEPT !.linecount = 0])
                                ELSE pg
                       IN  [c EXCEPT !.linecount = @ + 1]
             b == IF a.count + Len(line) + 1 > a.max_size THEN ClosePage(a) ELSE a
             c == [b EXCEPT !.count = @ + Len(line) + 1,
                            !.current_page = Append(@, line)]
         IN  [raised |-> FALSE,
              pg |-> IF empty
                     THEN [c EXCEPT !.current_page = Append(@, <<>>),
                                    !.count = @ + 1]
                     ELSE c]

\* ImagePaginator.add_line: every line is a page of its own
ImageAddLine(pg, line) ==
    [raised |-> FALSE,
     pg |-> ClosePage([pg EXCEPT !.count = Len(line),
                                 !.current_page = Append(@, line)])]

\* for line in lines: paginator.add_line(line, empty=empty), up to the first
\* line that raises
RECURSIVE AddLines(_, _, _, _)
AddLines(c, pg, lines, empty) ==
    IF lines = <<>> THEN [raised |-> FALSE, pg |-> pg]
    ELSE LET r == IF c = "line" THEN AddLine(pg, Head(lines), empty)
                  ELSE ImageAddLine(pg, Head(lines))
         IN  IF r.raised THEN r ELSE AddLines(c, r.pg, Tail(lines), empty)

\* Paginator.pages: a page that holds more than the prefix is closed first
Pages(pg) == IF Len(pg.current_page) > 1 THEN ClosePage(pg).pages ELSE pg.pages

\* mutant of Packed: an empty input gets the placeholder whatever the caller
\* asked for
Packed_EmptyNeverRaises(a) ==
    LET lines == IF a.lines = <<>> THEN <<Placeholder>> ELSE a.lines
        pg == IF a.cls = "line"
              THEN LinePaginatorInit(a.prefix, a.suffix, a.max_size, a.max_lines)
              ELSE ImagePaginatorInit(a.prefix, a.suffix)
        r == AddLines(a.cls, pg, lines, a.empty)
    IN  IF r.raised THEN [error |-> "RuntimeError", pages |-> <<>>]
        ELSE [error |-> "none", pages |-> Pages(r.pg)]

\* paginate from its call to embed.description = paginator.pages[0]: the
\* exception it raises on the way, or the pages
Packed(a) ==
    IF a.lines = <<>> /\ a.exception_on_empty_embed
    THEN [error |-> "EmptyPaginatorEmbed", pages |-> <<>>]
    ELSE LET lines == IF a.lines = <<>> THEN <<Placeholder>> ELSE a.lines
             pg == IF a.cls = "line"
                   THEN LinePaginatorInit(a.prefix, a.suffix, a.max_size, a.max_lines)
                   ELSE ImagePaginatorInit(a.prefix, a.suffix)
             r == AddLines(a.cls, pg, lines, a.empty)
         IN  IF r.raised THEN [error |-> "RuntimeError", pages |-> <<>>]
             ELSE [error |-> "none", pages |-> Pages(r.pg)]

\* mutant of Waiting: the deadline of the previous wait is kept
Waiting_KeepsDeadline(v) == [v EXCEPT !.pc = "wait"]

\* a new ctx.bot.wait_for(..., timeout=timeout) is awaited
Waiting(v) == [v EXCEPT !.pc = "wait", !.waited = 0]

\* mutant of LineTurn: the next-page check lets the last page through
LineTurn_NextPastLast(e, p, n) ==
    IF e = FIRST_EMOJI THEN [page |-> 0, out |-> "render"]
    ELSE IF e = LAST_EMOJI THEN [page |-> n - 1, out |-> "render"]
    ELSE IF e = LEFT_EMOJI
         THEN IF p <= 0 THEN [page |-> p, out |-> "continue"]
              ELSE [page |-> p - 1, out |-> "render"]
    ELSE IF p > n - 1 THEN [page |-> p, out |-> "continue"]
         ELSE [page |-> p + 1, out |-> "render"]

\* mutant of LineTurn: previous and next are swapped
LineTurn_Swapped(e, p, n) ==
    IF e = FIRST_EMOJI THEN [page |-> 0, out |-> "render"]
    ELSE IF e = LAST_EMOJI THEN [page |-> n - 1, out |-> "render"]
    ELSE IF e = RIGHT_EMOJI
         THEN IF p <= 0 THEN [page |-> p, out |-> "continue"]
              ELSE [page |-> p - 1, out |-> "render"]
    ELSE IF p >= n - 1 THEN [page |-> p, out |-> "continue"]
         ELSE [page |-> p + 1, out |-> "render"]

\* LinePaginator.paginate, the body of the loop after remove_reaction for a
\* first / last / previous / next reaction on page p of n: the new page, and
\* whether the page is rendered or the loop continues at once
LineTurn(e, p, n) ==
    IF e = FIRST_EMOJI THEN [page |-> 0, out |-> "render"]
    ELSE IF e = LAST_EMOJI THEN [page |-> n - 1, out |-> "render"]
    ELSE IF e = LEFT_EMOJI
         THEN IF p <= 0 THEN [page |-> p, out |-> "continue"]
              ELSE [page |-> p - 1, out |-> "render"]
    ELSE IF p >= n - 1 THEN [page |-> p, out |-> "continue"]
         ELSE [page |-> p + 1, out |-> "render"]

\* ImagePaginator.paginate, the body of the loop after remove_reaction: the
\* delete reaction breaks; len(paginator.pages - 1) subtracts an int from a
\* list and raises TypeError before current_page is assigned
ImageTurn(e, p, n) ==
    IF e = DELETE_EMOJI THEN [page |-> p, out |-> "break"]
    ELSE IF e = FIRST_EMOJI
         THEN IF p = 0 THEN [page |-> p, out |-> "continue"]
              ELSE [page |-> 0, out |-> "render"]
    ELSE IF e = LAST_EMOJI
         THEN IF p >= n - 1 THEN [page |-> p, out |-> "continue"]
              ELSE [page |-> p, out |-> "raise"]
    ELSE IF e = LEFT_EMOJI
         THEN IF p <= 0 THEN [page |-> p, out |-> "continue"]
              ELSE [page |-> p - 1, out |-> "render"]
    ELSE IF p >= n - 1 THEN [page |-> p, out |-> "continue"]
         ELSE [page |-> p + 1, out |-> "render"]

Turn(c, e, p, n) == IF c = "line" THEN LineTurn(e, p, n) ELSE ImageTurn(e, p, n)

\* mutant of Paginate: a single page gets the reactions and the loop as well
Paginate_AlwaysInteractive(a, ok) ==
    /\ view.pc = "idle"
    /\ LET r == Packed(a)
           n == Len(r.pages)
           v == [IdleView EXCEPT !.cls = a.cls, !.args = a, !.pages = r.pages,
                                 !.n = n]
       IN  IF r.error # "none"
           THEN /\ view' = Throws(v, r.error)
                /\ UNCHANGED message
           ELSE IF ok
           THEN /\ message' = [NoMessage EXCEPT !.sent = TRUE, !.desc = 0,
                                                !.footer = IF n <= 1 THEN 0 ELSE 1]
                /\ view' = [v EXCEPT !.pc = "react"]
           ELSE /\ view' = Raised(v)
                /\ UNCHANGED message
    /\ UNCHANGED <<remVars, starVars>>

\* mutant of Paginate: the first page is sent before the lines are packed
Paginate_SendsBeforePacking(a, ok) ==
    /\ view.pc = "idle"
    /\ LET r == Packed(a)
           n == Len(r.pages)
           v == [IdleView EXCEPT !.cls = a.cls, !.args = a, !.pages = r.pages,
                                 !.n = n]
       IN  IF ~ok
           THEN /\ view' = Raised(v)
                /\ UNCHANGED message
           ELSE /\ message' = [NoMessage EXCEPT !.sent = TRUE, !.desc = 0,
                                                !.footer = IF n <= 1 THEN 0 ELSE 1]
                /\ view' = IF r.error # "none" THEN Throws(v, r.error)
                           ELSE [v EXCEPT !.pc = IF n <= 1 THEN "done" ELSE "react"]
    /\ UNCHANGED <<remVars, starVars>>

\* paginate(...) with arguments a up to the answer of ctx.send: the lines
\* are packed (which may raise), the first page is sent; a single page gets
\* no page indicator and no loop
Paginate(a, ok) ==
    /\ view.pc = "idle"
    /\ LET r == Packed(a)
           n == Len(r.pages)
           v == [IdleView EXCEPT !.cls = a.cls, !.args = a, !.pages = r.pages,
                                 !.n = n]
       IN  IF r.error # "none"
           THEN /\ view' = Throws(v, r.error)
                /\ UNCHANGED message
           ELSE IF ok
           THEN /\ message' = [NoMessage EXCEPT !.sent = TRUE, !.desc = 0,
                                                !.footer = IF n <= 1 THEN 0 ELSE 1]
                /\ view' = [v EXCEPT !.pc = IF n <= 1 THEN "done" ELSE "react"]
           ELSE /\ view' = Raised(v)
                /\ UNCHANGED message
    /\ UNCHANGED <<remVars, starVars>>

\* for emoji in PAGINATION_EMOJI: await message.add_reaction(emoji)
AddReaction(ok) ==
    /\ view.pc = "react"
    /\ LET k == Len(message.reactions) + 1 IN
       IF ok
       THEN /\ message' = [message EXCEPT !.reactions = Append(@, PAGINATION_EMOJI[k])]
            /\ view' = IF k = Len(PAGINATION_EMOJI) THEN Waiting(view) ELSE view
       ELSE /\ view' = Raised(view)
            /\ UNCHANGED message
    /\ UNCHANGED <<remVars, starVars>>

\* time passes while the loop of the view is alive
PageTick ==
    /\ view.pc \notin {"idle", "react", "done", "raised"}
    /\ view.age < MaxAge \/ (view.pc = "wait" /\ view.waited < PageTimeout)
    /\ view' = [view EXCEPT
                  !.age = IF @ < MaxAge THEN @ + 1 ELSE @,
                  !.waited = IF view.pc = "wait" /\ @ < PageTimeout THEN @ + 1 ELSE @]
    /\ UNCHANGED <<message, remVars, starVars>>

\* wait_for raises asyncio.TimeoutError: break
WaitTimeout ==
    /\ view.pc = "wait"
    /\ view.waited >= PageTimeout
    /\ view' = [view EXCEPT !.pc = "clear"]
    /\ UNCHANGED <<message, remVars, starVars>>

\* reaction_add events: on this view's message or on another one, with one of
\* the five emoji or another one, by the bot, by the user the view may be
\* restricted to, or by someone else
ReactionEvents ==
    [here : BOOLEAN, emoji : Emoji \cup {"other"}, user : {"bot", "owner", "guest"}]

\* mutant of EventCheck: the restriction to one user is not looked at
EventCheck_IgnoresRestriction(a, ev) ==
    IF a.cls = "line"
    THEN /\ ev.here
         /\ ev.emoji \in Emoji
         /\ ev.user # "bot"
    ELSE /\ ev.here
         /\ ev.emoji \in Emoji
         /\ ev.user # "bot"

\* event_check of LinePaginator.paginate, check_event of ImagePaginator.paginate
EventCheck(a, ev) ==
    IF a.cls = "line"
    THEN /\ ev.here
         /\ ev.emoji \in Emoji
         /\ ev.user # "bot"
         /\ (~a.restrict_to_user \/ ev.user = "owner")
    ELSE /\ ev.here
         /\ ev.emoji \in Emoji
         /\ ev.user # "bot"

\* wait_for returns a reaction that passed the check; LinePaginator breaks on
\* the delete reaction, every other path awaits remove_reaction first
Accept(ev) ==
    /\ view.pc = "wait"
    /\ view.waited < PageTimeout
    /\ EventCheck(view.args, ev)
    /\ message' = [message EXCEPT !.byUser = @ \cup {ev.emoji}]
    /\ view' = [view EXCEPT !.reaction = ev.emoji, !.event = ev,
                            !.pc = IF view.cls = "line" /\ ev.emoji = DELETE_EMOJI
                                   THEN "clear" ELSE "remove"]
    /\ UNCHANGED <<remVars, starVars>>

\* a reaction_add event fails the check: wait_for goes on waiting
Ignore(ev) ==
    /\ view.pc = "wait"
    /\ view.waited < PageTimeout
    /\ ~EventCheck(view.args, ev)
    /\ view' = [view EXCEPT !.event = ev]
    /\ UNCHANGED <<message, remVars, starVars>>

\* await message.remove_reaction(reaction.emoji, user) returns or raises; the
\* loop body runs up to its next await
RemoveReaction(ok) ==
    /\ view.pc = "remove"
    /\ LET t == Turn(view.cls, view.reaction, view.current_page, view.n) IN
       IF ok
       THEN /\ message' = [message EXCEPT !.byUser = @ \ {view.reaction}]
            /\ view' = IF t.out = "break" THEN [view EXCEPT !.pc = "clear"]
                       ELSE IF t.out = "continue" THEN Waiting(view)
                       ELSE IF t.out = "raise" THEN Throws(view, "TypeError")
                       ELSE [view EXCEPT !.pc = "edit1", !.current_page = t.page]
       ELSE /\ view' = Raised(view)
            /\ UNCHANGED message
    /\ UNCHANGED <<remVars, starVars>>

\* embed.description = ""; await message.edit(embed=embed)
EditBlank(ok) ==
    /\ view.pc = "edit1"
    /\ IF ok
       THEN /\ message' = [message EXCEPT !.desc = -1]
            /\ view' = [view EXCEPT !.pc = "edit2"]
       ELSE /\ view' = Raised(view)
            /\ UNCHANGED message
    /\ UNCHANGED <<remVars, starVars>>

\* mutant of EditPage: the page is rendered, the page indicator is left as
\* it was
EditPage_KeepsFooter(ok) ==
    /\ view.pc = "edit2"
    /\ IF ok
       THEN /\ message' = [message EXCEPT !.desc = view.current_page]
            /\ view' = Waiting(view)
       ELSE /\ view' = Raised(view)
            /\ UNCHANGED message
    /\ UNCHANGED <<remVars, starVars>>

\* description and footer are set to the current page; await message.edit
EditPage(ok) ==
    /\ view.pc = "edit2"
    /\ IF ok
       THEN /\ message' = [message EXCEPT !.desc = view.current_page,
                                          !.footer = view.current_page + 1]
            /\ view' = Waiting(view)
       ELSE /\ view' = Raised(view)
            /\ UNCHANGED message
    /\ UNCHANGED <<remVars, starVars>>

\* mutant of ClearReactions: only the bot's own reactions are removed
ClearReactions_KeepsUsersReactions(ok) ==
    /\ view.pc = "clear"
    /\ IF ok
       THEN /\ message' = [message EXCEPT !.reactions = <<>>]
            /\ view' = [view EXCEPT !.pc = "done"]
       ELSE /\ view' = Raised(view)
            /\ UNCHANGED message
    /\ UNCHANGED <<remVars, starVars>>

\* await message.clear_reactions()
ClearReactions(ok) ==
    /\ view.pc = "clear"
    /\ IF ok
       THEN /\ message' = [message EXCEPT !.reactions = <<>>, !.byUser = {}]
            /\ view' = [view EXCEPT !.pc = "done"]
       ELSE /\ view' = Raised(view)
            /\ UNCHANGED message
    /\ UNCHANGED <<remVars, starVars>>

\* the lines handed to paginate: k lines, line i of lens[i] characters
Inputs(maxlines, lens) ==
    UNION {{[i \in 1..k |-> Text(i, f[i])] : f \in [1..k -> lens]} : k \in 0..maxlines}

\* the prefix and the suffix of every page: fix characters each
Fix(ch, fix) == [k \in 1..fix |-> ch]

\* calls of paginate that yield 1..MaxPages pages of one line each
PageArgs ==
    {[NoArgs EXCEPT !.cls = c, !.lines = l, !.max_lines = 1, !.max_size = MaxSize,
                    !.restrict_to_user = r]
        : c \in {"line", "image"}, l \in Inputs(MaxPages, {1}), r \in BOOLEAN}
    \ {[NoArgs EXCEPT !.cls = "image", !.lines = l, !.max_lines = 1,
                      !.max_size = MaxSize, !.restrict_to_user = TRUE]
        : l \in Inputs(MaxPages, {1})}

\* calls of paginate with every input of up to MaxLines lines and every
\* setting of max_lines, empty, prefix / suffix and exception_on_empty_embed
PackArgs ==
    {[NoArgs EXCEPT !.cls = "line", !.lines = l, !.max_lines = m,
                    !.max_size = MaxSize, !.empty = e,
                    !.prefix = Fix(PrefixChar, x), !.suffix = Fix(SuffixChar, x),
                    !.exception_on_empty_embed = f]
        : l \in Inputs(MaxLines, 1..MaxLen), m \in 0..MaxPerPage, e \in BOOLEAN,
          x \in {0, 1}, f \in BOOLEAN}
    \cup
    {[NoArgs EXCEPT !.cls = "image", !.lines = l, !.exception_on_empty_embed = f]
        : l \in Inputs(MaxLines, 1..MaxLen), f \in BOOLEAN}

InitPage ==
    /\ store = <<>>
    /\ nextId = 1
    /\ now = 0
    /\ scheduled_tasks = <<>>
    /\ timers = <<>>
    /\ ready = IdleReady
    /\ cmd = IdleCmd
    /\ caps = [ids |-> 0, timers |-> 0, cmds |-> 0, users |-> {}, durs |-> {},
               oks |-> BOOLEAN, args |-> PageArgs]
    /\ ghost = [sent |-> <<>>]
    /\ view = IdleView
    /\ message = NoMessage
    /\ StarIdle

StartStep ==
    \/ \E a \in caps.args, ok \in BOOLEAN : Paginate(a, ok)
    \/ \E ok \in BOOLEAN : AddReaction(ok)

PageStep ==
    \/ StartStep
    \/ WaitTimeout
    \/ \E ev \in ReactionEvents : Accept(ev)
    \/ \E ev \in ReactionEvents : Ignore(ev)
    \/ \E ok \in BOOLEAN : RemoveReaction(ok)
    \/ \E ok \in BOOLEAN : EditBlank(ok)
    \/ \E ok \in BOOLEAN : EditPage(ok)
    \/ \E ok \in BOOLEAN : ClearReactions(ok)

NextPage == PageTick \/ PageStep

\* one paginated view, from the call of paginate to its end
SpecPage == InitPage /\ [][NextPage]_vars

InitPack ==
    /\ store = <<>>
    /\ nextId = 1
    /\ now = 0
    /\ scheduled_tasks = <<>>
    /\ timers = <<>>
    /\ ready = IdleReady
    /\ cmd = IdleCmd
    /\ caps = [ids |-> 0, timers |-> 0, cmds |-> 0, users |-> {}, durs |-> {},
               oks |-> BOOLEAN, args |-> PackArgs]
    /\ ghost = [sent |-> <<>>]
    /\ view = IdleView
    /\ message = NoMessage
    /\ StarIdle

NextPack == StartStep

\* every call of paginate, from the call to the first wait for an event
SpecPack == InitPack /\ [][NextPack]_vars

\* ------------------------------------------------------------- starboard
restVars == <<remVars, view, message>>

\* key in self.star_msg_map (false for every key once it is the list [])
Has(c, k) == c.kind = "dict" /\ k \in DOMAIN c.map

\* self.star_msg_map[k] = v on a dict
Put(c, k, v) == [c EXCEPT !.map = (k :> v) @@ @]

\* del self.star_msg_map[k] on a dict that may lack k, KeyError caught
Del(c, k) == [c EXCEPT !.map = IF k \in DOMAIN @ THEN Remove(@, k) ELSE @]

\* the starboard channel still holds the message with this id
Alive(id) ==
    /\ id - MaxMsgs \in DOMAIN board
    /\ board[id - MaxMsgs].alive

\* message.delete() on a starboard message
Deleted(b, id) ==
    IF id - MaxMsgs \in DOMAIN b THEN [b EXCEPT ![id - MaxMsgs].alive = FALSE] ELSE b

\* the coroutine ends with an exception nobody catches
Fails(r, err) == [r EXCEPT !.pc = "raised", !.error = err]

\* an on_raw_reaction_add coroutine that returned, or ended with an
\* exception: its locals are gone
Returned == [IdleHandler EXCEPT !.pc = "done"]

Failed(err) == Fails(IdleHandler, err)

\* async_init: the GET of all entries returns, the cache is populated
AsyncInit ==
    /\ boot.pc = "get"
    /\ IF star_msg_map.kind = "dict"
       THEN /\ star_msg_map' =
                  [star_msg_map EXCEPT !.map =
                      [k \in DOMAIN site \cup DOMAIN @ |->
                          IF k \in DOMAIN site THEN site[k] ELSE @[k]]]
            /\ boot' = [boot EXCEPT !.pc = "done"]
       ELSE /\ boot' = IF site = <<>> THEN [boot EXCEPT !.pc = "done"]
                       ELSE Fails(boot, "IndexError")
            /\ UNCHANGED star_msg_map
    /\ UNCHANGED <<site, board, stars, handlers, wipe, entry, restVars>>

\* on_raw_reaction_add / on_raw_reaction_remove from get_messages' return
\* on: no star reaction left, below the threshold, no starboard message yet,
\* or one to update
Decide(r, star) ==
    IF r.count = 0 THEN [r EXCEPT !.star = star, !.pc = "dstar"]
    ELSE IF r.add
    THEN IF r.count < THRESHOLD THEN Returned
         ELSE IF star = None
              THEN [r EXCEPT !.star = star, !.pc = "send", !.from = "new"]
         ELSE [r EXCEPT !.star = star, !.pc = "edit"]
    ELSE IF r.count < THRESHOLD
         THEN IF star = None THEN Returned
              ELSE [r EXCEPT !.star = star, !.pc = "dstar"]
         ELSE IF star = None THEN Failed("AttributeError")
         ELSE [r EXCEPT !.star = star, !.pc = "edit"]

\* the kinds of reaction payloads the gateway delivers: a star on a message,
\* a reaction in another guild, another emoji, a reaction on the starboard
Payloads == {"star", "guild", "emoji", "starboard"}

\* on_raw_reaction_add is called (the coroutine takes the first free slot):
\* payloads of another guild, with another emoji or on the starboard channel
\* return at once; else the original message is requested
ReactionAdd(h, m, kind) ==
    /\ boot.pc # "idle"
    /\ boot.events < caps.events
    /\ handlers[h].pc \in {"idle", "done", "raised"}
    /\ \A g \in DOMAIN handlers :
          g < h => handlers[g].pc \notin {"idle", "done", "raised"}
    /\ IF kind = "star"
       THEN /\ stars' = [stars EXCEPT ![m] = IF @ < MaxStars THEN @ + 1 ELSE @]
            /\ handlers' = [handlers EXCEPT ![h] =
                              [IdleHandler EXCEPT !.pc = "fetch", !.m = m]]
       ELSE /\ handlers' = [handlers EXCEPT ![h] = Returned]
            /\ UNCHANGED stars
    /\ boot' = [boot EXCEPT !.events = @ + 1]
    /\ UNCHANGED <<star_msg_map, site, board, wipe, entry, restVars>>

\* on_raw_reaction_remove is called for a reaction taken off an original
\* message: only payloads of another guild return at once, the emoji is not
\* looked at
ReactionRemove(h, m, kind) ==
    /\ boot.pc # "idle"
    /\ boot.events < caps.events
    /\ kind # "starboard"
    /\ kind = "star" => stars[m] > 0
    /\ handlers[h].pc \in {"idle", "done", "raised"}
    /\ \A g \in DOMAIN handlers :
          g < h => handlers[g].pc \notin {"idle", "done", "raised"}
    /\ stars' = IF kind = "star" THEN [stars EXCEPT ![m] = @ - 1] ELSE stars
    /\ handlers' = [handlers EXCEPT ![h] =
                      IF kind = "guild" THEN Returned
                      ELSE [IdleHandler EXCEPT !.pc = "fetch", !.m = m,
                                               !.add = FALSE]]
    /\ boot' = [boot EXCEPT !.events = @ + 1]
    /\ UNCHANGED <<star_msg_map, site, board, wipe, entry, restVars>>

\* get_messages: original_channel.get_message returns; the cache is looked up
HFetch(h) ==
    /\ handlers[h].pc = "fetch"
    /\ LET r == [handlers[h] EXCEPT !.count = stars[handlers[h].m]] IN
       handlers' = [handlers EXCEPT ![h] =
           IF star_msg_map.kind = "list" THEN Failed("IndexError")
           ELSE IF r.m \in DOMAIN star_msg_map.map
                THEN [r EXCEPT !.pc = "cached", !.star = star_msg_map.map[r.m]]
           ELSE [r EXCEPT !.pc = "api"]]
    /\ UNCHANGED <<star_msg_map, site, board, stars, wipe, entry, boot, restVars>>

\* get_messages, cache hit: starboard.get_message returns or raises NotFound
HCached(h) ==
    /\ handlers[h].pc = "cached"
    /\ handlers' = [handlers EXCEPT ![h] =
                      IF Alive(@.star) THEN Decide(@, @.star)
                      ELSE Failed("NotFound")]
    /\ UNCHANGED <<star_msg_map, site, board, stars, wipe, entry, boot, restVars>>

\* get_messages, cache miss: the GET of the entry returns
HApi(h) ==
    /\ handlers[h].pc = "api"
    /\ LET r == handlers[h] IN
       handlers' = [handlers EXCEPT ![h] =
                      IF r.m \in DOMAIN site
                      THEN [r EXCEPT !.pc = "remote", !.star = site[r.m]]
                      ELSE Decide(r, None)]
    /\ UNCHANGED <<star_msg_map, site, board, stars, wipe, entry, boot, restVars>>

\* get_messages, entry found remotely: starboard.get_message returns or
\* raises NotFound; get_messages returns original and star_msg
HRemote(h) ==
    /\ handlers[h].pc = "remote"
    /\ handlers' = [handlers EXCEPT ![h] =
                      IF Alive(@.star) THEN Decide(@, @.star)
                      ELSE Failed("NotFound")]
    /\ UNCHANGED <<star_msg_map, site, board, stars, wipe, entry, boot, restVars>>

\* post_new_entry: starboard.send returns the new message, or raises
\* Forbidden / HTTPException, which is logged
HSend(h, ok) ==
    /\ handlers[h].pc = "send"
    /\ IF ok
       THEN /\ Len(board) < MaxBoard
            /\ board' = Append(board, [orig |-> handlers[h].m, alive |-> TRUE])
            /\ handlers' = [handlers EXCEPT ![h].pc = "post",
                                            ![h].star = StarId(Len(board) + 1)]
       ELSE /\ handlers' = [handlers EXCEPT ![h] = Returned]
            /\ UNCHANGED board
    /\ UNCHANGED <<star_msg_map, site, stars, wipe, entry, boot, restVars>>

\* post_to_api: the POST answers 200 (stored), 400 (exists already) or
\* something else; post_new_entry caches the pair when it returns True
HPost(h, ok) ==
    /\ handlers[h].pc = "post"
    /\ LET r == handlers[h] IN
       IF ~ok
       THEN /\ handlers' = [handlers EXCEPT ![h].pc = "undo"]
            /\ UNCHANGED <<site, star_msg_map>>
       ELSE /\ site' = IF r.m \in DOMAIN site THEN site ELSE (r.m :> r.star) @@ site
            /\ IF r.from = "new"
               THEN IF star_msg_map.kind = "list"
                    THEN /\ handlers' = [handlers EXCEPT ![h] = Failed("IndexError")]
                         /\ UNCHANGED star_msg_map
                    ELSE /\ handlers' = [handlers EXCEPT ![h] = Returned]
                         /\ star_msg_map' = Put(star_msg_map, r.m, r.star)
               ELSE /\ handlers' = [handlers EXCEPT ![h] = Returned]
                    /\ UNCHANGED star_msg_map
    /\ UNCHANGED <<board, stars, wipe, entry, boot, restVars>>

\* post_to_api after a failed POST: star_msg.delete(), return False
HUndo(h) ==
    /\ handlers[h].pc = "undo"
    /\ board' = Deleted(board, handlers[h].star)
    /\ handlers' = [handlers EXCEPT ![h] = Returned]
    /\ UNCHANGED <<star_msg_map, site, stars, wipe, entry, boot, restVars>>

\* change_starcount: star_msg.edit returns (the pair is cached if the cache
\* lacks it) or raises Forbidden / HTTPException, which is logged
HEdit(h, ok) ==
    /\ handlers[h].pc = "edit"
    /\ LET r == handlers[h] IN
       IF ~ok
       THEN /\ handlers' = [handlers EXCEPT ![h] = Returned]
            /\ UNCHANGED star_msg_map
       ELSE IF Has(star_msg_map, r.m)
       THEN /\ handlers' = [handlers EXCEPT ![h].pc = "check"]
            /\ UNCHANGED star_msg_map
       ELSE IF star_msg_map.kind = "list"
       THEN /\ handlers' = [handlers EXCEPT ![h] = Failed("IndexError")]
            /\ UNCHANGED star_msg_map
       ELSE /\ handlers' = [handlers EXCEPT ![h].pc = "check"]
            /\ star_msg_map' = Put(star_msg_map, r.m, r.star)
    /\ UNCHANGED <<site, board, stars, wipe, entry, boot, restVars>>

\* change_starcount: the GET of the entry returns; an entry the remote store
\* lacks is posted
HCheck(h) ==
    /\ handlers[h].pc = "check"
    /\ handlers' = [handlers EXCEPT ![h] =
                      IF @.m \in DOMAIN site THEN Returned
                      ELSE [@ EXCEPT !.pc = "post", !.from = "change"]]
    /\ UNCHANGED <<star_msg_map, site, board, stars, wipe, entry, boot, restVars>>

\* delete_star: star.delete() returns, or raises Forbidden / HTTPException,
\* which is logged; without a starboard message None.delete() raises
HDelStar(h, ok) ==
    /\ handlers[h].pc = "dstar"
    /\ IF handlers[h].star = None
       THEN /\ handlers' = [handlers EXCEPT ![h] = Failed("AttributeError")]
            /\ UNCHANGED board
       ELSE /\ handlers' = [handlers EXCEPT ![h].pc = "ddel"]
            /\ board' = IF ok THEN Deleted(board, handlers[h].star) ELSE board
    /\ UNCHANGED <<star_msg_map, site, stars, wipe, entry, boot, restVars>>

\* delete_star: the DELETE of the entry answers; on 200 the pair leaves the
\* cache
HDelRemote(h, ok) ==
    /\ handlers[h].pc = "ddel"
    /\ LET m == handlers[h].m IN
       IF ok /\ m \in DOMAIN site
       THEN /\ site' = Remove(site, m)
            /\ IF star_msg_map.kind = "list"
               THEN /\ handlers' = [handlers EXCEPT ![h] = Failed("IndexError")]
                    /\ UNCHANGED star_msg_map
               ELSE /\ handlers' = [handlers EXCEPT ![h] = Returned]
                    /\ star_msg_map' = Del(star_msg_map, m)
       ELSE /\ handlers' = [handlers EXCEPT ![h] = Returned]
            /\ UNCHANGED <<site, star_msg_map>>
    /\ UNCHANGED <<board, stars, wipe, entry, boot, restVars>>

\* ---- delete_all_star_entries
YES_EMOJI == "yes"
NO_EMOJI == "no"

\* reaction_add events while the command waits: on the prompt or on another
\* message, by the invoking owner, another owner, a member or the bot
PromptEvents ==
    [here : BOOLEAN, emoji : {YES_EMOJI, NO_EMOJI, "other"},
     user : {"author", "owner", "member", "bot"}]

\* check(r, u) of delete_all_star_entries
Check(ev) ==
    /\ ev.emoji \in {YES_EMOJI, NO_EMOJI}
    /\ ev.user \in {"author", "owner"}
    /\ ev.user = "author"

\* the prompt is sent and gets its two reactions
WipePrompt ==
    /\ boot.pc # "idle"
    /\ wipe.pc = "idle"
    /\ wipe' = [wipe EXCEPT !.pc = "wait"]
    /\ UNCHANGED <<star_msg_map, site, board, stars, handlers, entry, boot, restVars>>

\* wait_for returns a reaction that passed the check: NO returns, YES goes
\* on to the remote delete
WipeAccept(ev) ==
    /\ wipe.pc = "wait"
    /\ Check(ev)
    /\ wipe' = IF ev.emoji = NO_EMOJI
               THEN [wipe EXCEPT !.pc = "done", !.event = ev, !.res = "no"]
               ELSE [wipe EXCEPT !.pc = "delete", !.event = ev]
    /\ UNCHANGED <<star_msg_map, site, board, stars, handlers, entry, boot, restVars>>

\* a reaction_add event fails the check: wait_for goes on waiting
WipeIgnore(ev) ==
    /\ wipe.pc = "wait"
    /\ ~Check(ev)
    /\ wipe' = [wipe EXCEPT !.ignored = TRUE]
    /\ UNCHANGED <<star_msg_map, site, board, stars, handlers, entry, boot, restVars>>

\* wait_for raises asyncio.TimeoutError: return
WipeTimeout ==
    /\ wipe.pc = "wait"
    /\ wipe' = [wipe EXCEPT !.pc = "done", !.res = "timeout"]
    /\ UNCHANGED <<star_msg_map, site, board, stars, handlers, entry, boot, restVars>>

\* the DELETE of all entries answers 200 or something else
WipeDelete(ok) ==
    /\ wipe.pc = "delete"
    /\ IF ok
       THEN /\ site' = <<>>
            /\ wipe' = [wipe EXCEPT !.pc = "ack"]
       ELSE /\ wipe' = [wipe EXCEPT !.pc = "report"]
            /\ UNCHANGED site
    /\ UNCHANGED <<star_msg_map, board, stars, handlers, entry, boot, restVars>>

\* the error embed is sent
WipeReport ==
    /\ wipe.pc = "report"
    /\ wipe' = [wipe EXCEPT !.pc = "done", !.res = "failed"]
    /\ UNCHANGED <<star_msg_map, site, board, stars, handlers, entry, boot, restVars>>

\* msg.add_reaction(OK_HAND) returns; self.star_msg_map = []
WipeAck ==
    /\ wipe.pc = "ack"
    /\ star_msg_map' = ListCache
    /\ wipe' = [wipe EXCEPT !.pc = "done", !.res = "ok"]
    /\ UNCHANGED <<site, board, stars, handlers, entry, boot, restVars>>

\* ---- delete_starboard_entry
\* the command is called with msg_id: the pair is taken out of the cache by
\* key or by value, and the GET of the entry is issued
EntryStart(id) ==
    /\ boot.pc # "idle"
    /\ entry.pc = "idle"
    /\ LET e == [entry EXCEPT !.msg_id = id, !.pc = "get"]
           byValue == {k \in DOMAIN star_msg_map.map : star_msg_map.map[k] = id}
       IN  IF star_msg_map.kind = "list"
           THEN /\ entry' = Fails(e, "IndexError")
                /\ UNCHANGED star_msg_map
           ELSE IF id \in DOMAIN star_msg_map.map
           THEN /\ entry' = [e EXCEPT !.original_id = id]
                /\ star_msg_map' = Del(star_msg_map, id)
           ELSE IF byValue # {}
           THEN \E k \in byValue :
                    /\ entry' = [e EXCEPT !.original_id = k]
                    /\ star_msg_map' = Del(star_msg_map, k)
           ELSE /\ entry' = e
                /\ UNCHANGED star_msg_map
    /\ UNCHANGED <<site, board, stars, handlers, wipe, boot, restVars>>

\* the GET for original_id or msg_id answers: success, or the command gives up
EntryGet ==
    /\ entry.pc = "get"
    /\ LET query == IF entry.original_id # None THEN entry.original_id
                    ELSE entry.msg_id
       IN  entry' = IF query \in DOMAIN site
                    THEN [entry EXCEPT !.pc = "del", !.star = site[query]]
                    ELSE [entry EXCEPT !.pc = "sorry"]
    /\ UNCHANGED <<star_msg_map, site, board, stars, handlers, wipe, boot, restVars>>

\* "I couldn't find an id for the original message" is sent
EntrySorry ==
    /\ entry.pc = "sorry"
    /\ entry' = [entry EXCEPT !.pc = "done", !.msg_id = None, !.star = None]
    /\ UNCHANGED <<star_msg_map, site, board, stars, handlers, wipe, boot, restVars>>

\* the DELETE for message_id=original_id answers 200 or something else
EntryDelete(ok) ==
    /\ entry.pc = "del"
    /\ site' = IF ok /\ entry.original_id \in DOMAIN site
               THEN Remove(site, entry.original_id) ELSE site
    /\ entry' = [entry EXCEPT !.pc = "stardel", !.sent = TRUE,
                              !.deleted = entry.original_id]
    /\ UNCHANGED <<star_msg_map, board, stars, handlers, wipe, boot, restVars>>

\* the starboard message is fetched and deleted
EntryStarDelete ==
    /\ entry.pc = "stardel"
    /\ IF Alive(entry.star)
       THEN /\ board' = Deleted(board, entry.star)
            /\ entry' = [entry EXCEPT !.pc = "clear"]
       ELSE /\ entry' = Fails(entry, "NotFound")
            /\ UNCHANGED board
    /\ UNCHANGED <<star_msg_map, site, stars, handlers, wipe, boot, restVars>>

\* the original message is fetched by original_id and its reactions cleared
EntryClear ==
    /\ entry.pc = "clear"
    /\ IF entry.original_id \in DOMAIN stars
       THEN /\ stars' = [stars EXCEPT ![entry.original_id] = 0]
            /\ entry' = [entry EXCEPT !.pc = "finish"]
       ELSE /\ entry' = Fails(entry, "NotFound")
            /\ UNCHANGED stars
    /\ UNCHANGED <<star_msg_map, site, board, handlers, wipe, boot, restVars>>

\* the invocation gets its OK reaction and is deleted after three seconds
EntryFinish ==
    /\ entry.pc = "finish"
    /\ entry' = [entry EXCEPT !.pc = "done", !.msg_id = None, !.star = None]
    /\ UNCHANGED <<star_msg_map, site, board, stars, handlers, wipe, boot, restVars>>

\* the cog is loaded with some messages already on the starboard; slots
\* handler coroutines may be alive at a time, events payloads are delivered
InitStarWith(slots, events) ==
    /\ store = <<>>
    /\ nextId = 1
    /\ now = 0
    /\ scheduled_tasks = <<>>
    /\ timers = <<>>
    /\ ready = IdleReady
    /\ cmd = IdleCmd
    /\ caps = [ids |-> 0, timers |-> 0, cmds |-> 0, users |-> {}, durs |-> {},
               oks |-> BOOLEAN, events |-> events]
    /\ ghost = [sent |-> <<>>]
    /\ view = IdleView
    /\ message = NoMessage
    /\ star_msg_map = NoCache
    /\ \E S \in SUBSET (1..MaxMsgs) :
          LET ids == ToSeq(S) IN
          /\ board = [k \in 1..Len(ids) |-> [orig |-> ids[k], alive |-> TRUE]]
          /\ site = [m \in S |-> StarId(CHOOSE k \in 1..Len(ids) : ids[k] = m)]
          /\ stars = [m \in 1..MaxMsgs |-> IF m \in S THEN THRESHOLD ELSE 0]
    /\ handlers = [h \in 1..slots |-> IdleHandler]
    /\ wipe = IdleWipe
    /\ entry = IdleEntry
    /\ boot = [IdleBoot EXCEPT !.pc = "get"]

HandlerStep ==
    \/ \E h \in DOMAIN handlers, m \in 1..MaxMsgs, kind \in Payloads :
          ReactionAdd(h, m, kind)
    \/ \E h \in DOMAIN handlers, m \in 1..MaxMsgs, kind \in Payloads :
          ReactionRemove(h, m, kind)
    \/ \E h \in DOMAIN handlers : HFetch(h)
    \/ \E h \in DOMAIN handlers : HCached(h)
    \/ \E h \in DOMAIN handlers : HApi(h)
    \/ \E h \in DOMAIN handlers : HRemote(h)
    \/ \E h \in DOMAIN handlers, ok \in BOOLEAN : HSend(h, ok)
    \/ \E h \in DOMAIN handlers, ok \in BOOLEAN : HPost(h, ok)
    \/ \E h \in DOMAIN handlers : HUndo(h)
    \/ \E h \in DOMAIN handlers, ok \in BOOLEAN : HEdit(h, ok)
    \/ \E h \in DOMAIN handlers : HCheck(h)
    \/ \E h \in DOMAIN handlers, ok \in BOOLEAN : HDelStar(h, ok)
    \/ \E h \in DOMAIN handlers, ok \in BOOLEAN : HDelRemote(h, ok)

WipeStep ==
    \/ WipePrompt
    \/ \E ev \in PromptEvents : WipeAccept(ev)
    \/ \E ev \in PromptEvents : WipeIgnore(ev)
    \/ WipeTimeout
    \/ \E ok \in BOOLEAN : WipeDelete(ok)
    \/ WipeReport
    \/ WipeAck

EntryStep ==
    \/ \E id \in 1..(MaxMsgs + MaxBoard) : EntryStart(id)
    \/ EntryGet
    \/ EntrySorry
    \/ \E ok \in BOOLEAN : EntryDelete(ok)
    \/ EntryStarDelete
    \/ EntryClear
    \/ EntryFinish

\* the reaction handlers, two of them alive at a time
InitStar == InitStarWith(2, MaxEvents)

NextStar == AsyncInit \/ HandlerStep

SpecStar == InitStar /\ [][NextStar]_vars

\* the two delete commands, with one reaction handler at a time
InitBoard == InitStarWith(1, MaxEvents - 1)

NextBoard == AsyncInit \/ HandlerStep \/ WipeStep \/ EntryStep

SpecBoard == InitBoard /\ [][NextBoard]_vars

\* ------------------------------------------------------------------ claims
Ids == 1..caps.ids

WaitingIn(tm, id) == {h \in DOMAIN tm : tm[h].pc = "wait" /\ tm[h].rem.id = id}

\* C1: in every reachable state at most one live timer (a _scheduled_task
\* still waiting for its deadline) exists for any reminder id
C1_OneLiveTimerPerId == \A id \in Ids : Cardinality(WaitingIn(timers, id)) <= 1

\* a reminder was rescheduled: its first timer is cancelled, its second waits
C1_Witness ==
    \E h1, h2 \in DOMAIN timers :
        /\ timers[h1].rem.id = timers[h2].rem.id
        /\ timers[h1].pc = "cancelled"
        /\ timers[h2].pc = "wait"

\* no command, recovery or fire action is in progress, and recovery has run
Quiescent ==
    /\ cmd.pc \in {"idle", "done"}
    /\ ready.pc = "done"
    /\ \A h \in DOMAIN timers : timers[h].pc \notin Firing

\* C2: whenever no command, recovery or fire action is in progress, the ids
\* with a scheduler entry are exactly the ids still in the remote store
C2_StoreAndSchedulerAgree == Quiescent => DOMAIN scheduled_tasks = DOMAIN store

\* C3: a reminder that is never edited nor deleted is notified at most once,
\* and once it was notified and nothing is in progress, its id is in neither
\* the remote store nor the scheduler
C3_FiresExactlyOnce ==
    \A id \in Ids :
        /\ ghost.sent[id] <= 1
        /\ (Quiescent /\ ghost.sent[id] >= 1) =>
               (id \notin DOMAIN store /\ id \notin DOMAIN scheduled_tasks)

\* positions of the recovery response that were overdue / pending at recovery
Overdue(rd) == {i \in 1..Len(rd.resp) : rd.resp[i].expiration < rd.now}
OverdueIds(rd) == {rd.resp[i].id : i \in Overdue(rd)}
PendingIds(rd) == {rd.resp[i].id : i \in (1..Len(rd.resp)) \ Overdue(rd)}
CallsFor(rd, id) == {k \in 1..Len(rd.calls) : rd.calls[k].id = id}
ReadyCompletes == ready.pc # "done" /\ ready'.pc = "done"

\* C4: once recovery has run (to its end or to an exception), send_reminder
\* was invoked exactly once for every reminder that was overdue at recovery
\* time, with late = now - expiration
C4_OverdueFiredOnce ==
    ready.pc \in {"done", "failed"} =>
        \A i \in Overdue(ready) :
            \E k \in 1..Len(ready.calls) :
                /\ CallsFor(ready, ready.resp[i].id) = {k}
                /\ ready.calls[k].late = ready.now - ready.resp[i].expiration

\* C5 as stated: when recovery completes without failure the scheduler's
\* entries are exactly the reminders that were pending at recovery time
C5_EntriesAreThePending ==
    [][ReadyCompletes => DOMAIN scheduled_tasks' = PendingIds(ready')]_vars

\* C5 amended: recovery starts timers for pending reminders only, and when it
\* completes without failure it has called schedule_task for exactly the
\* pending reminders of the response and fired exactly the overdue ones
C5_RecoveryPartitions ==
    [][/\ ready' # ready =>
            \A h \in (DOMAIN timers') \ (DOMAIN timers) :
                /\ timers'[h].rem.id \in PendingIds(ready')
                /\ timers'[h].rem.expiration >= ready'.now
       /\ ReadyCompletes =>
            /\ ready'.sched = PendingIds(ready')
            /\ {ready'.calls[k].id : k \in 1..Len(ready'.calls)} = OverdueIds(ready')
            /\ ready'.sched \cap OverdueIds(ready') = {}]_vars

\* a recovery that completed after firing one reminder and scheduling another
C5_Witness ==
    /\ ready.pc = "done"
    /\ ready.sched # {}
    /\ Len(ready.calls) > 0

\* C6: when firing an overdue reminder fails during recovery, every other
\* reminder of the response is still fired or scheduled
C6_FailureSkipsOneReminder ==
    (ready.pc = "failed" /\ ready.i \in Overdue(ready)) =>
        \A j \in (1..Len(ready.resp)) \ {ready.i} :
            \/ ready.resp[j].id \in ready.sched
            \/ CallsFor(ready, ready.resp[j].id) # {}

\* C7: a non-privileged user never holds more than MAXIMUM_REMINDERS
\* reminders in the remote store, nor more than that many scheduler entries
C7_LimitOfFive ==
    \A u \in Users \ Staff :
        /\ Cardinality(RemindersOf(u)) <= MAXIMUM_REMINDERS
        /\ Cardinality({k \in DOMAIN scheduled_tasks :
                            timers[scheduled_tasks[k]].rem.author = u})
               <= MAXIMUM_REMINDERS

Rejected == {"PermissionDenied", "LimitExceeded"}

\* C8: a create command that is rejected by the permission gate or by the
\* limit check writes nothing to the remote store and schedules nothing
C8_RejectedCreateHasNoEffect ==
    [][(cmd'.n # cmd.n /\ cmd'.kind = "new" /\ cmd'.result \in Rejected) =>
            /\ store' = store
            /\ nextId' = nextId
            /\ scheduled_tasks' = scheduled_tasks
            /\ timers' = timers]_vars

\* a create was rejected by the limit check
C8_Witness == cmd.kind = "new" /\ cmd.result = "LimitExceeded"

NewCompletes ==
    cmd.kind = "new" /\ cmd.pc = "confirm" /\ cmd'.pc = "done" /\ cmd'.result = "ok"

EditCompletes ==
    cmd.kind = "edit" /\ cmd.pc = "confirm" /\ cmd'.pc = "done" /\ cmd'.result = "ok"

Fields == {"expiration", "content"}

\* C11: an edit (of the duration or of the content) of an id that is not in
\* the remote store ends with NotFound, and the step changes neither the
\* scheduler's map nor its timers: no entry appears under that id
C11_EditOfMissingIsNotFound ==
    [][\A id \in Ids \ DOMAIN store :
          (\E f \in Fields, dur \in caps.durs : EditPatch(id, f, dur, TRUE)) =>
              /\ cmd'.pc = "done"
              /\ cmd'.result = "NotFound"
              /\ scheduled_tasks' = scheduled_tasks
              /\ timers' = timers
              /\ store' = store]_vars

\* an edit of a reminder that had already been delivered and deleted was
\* answered with NotFound
C11_Witness ==
    /\ cmd.kind = "edit" /\ cmd.result = "NotFound"
    /\ \E id \in 1..(nextId - 1) : id \notin DOMAIN store /\ ghost.sent[id] >= 1

\* C12: after the first step of the delete command for an id (the remote
\* delete answered: success, not-found or transport error) the scheduler has
\* no entry for that id
C12_DeleteAlwaysCancels ==
    [][\A id \in Ids :
          (\E ok \in caps.oks, stop \in BOOLEAN : DelDelete(id, ok, stop)) =>
              id \notin DOMAIN scheduled_tasks']_vars

\* C13: when the remote delete of a firing timer fails, no scheduler entry
\* refers to that timer afterwards
C13_FailedFireClearsEntry ==
    [][\A h \in DOMAIN timers :
          (timers[h].pc \in {"del1", "del2"} /\ timers'[h].pc = "failed") =>
              \A id \in DOMAIN scheduled_tasks' : scheduled_tasks'[id] # h]_vars

\* C14: a step of a create or edit command that ends in a transport error
\* leaves the store, the scheduler's map and its timers unchanged, and a
\* create or edit command touches the scheduler only in its last step, after
\* its remote write was answered with the stored reminder
C14_TransportErrorLeavesScheduler ==
    [][(cmd' # cmd /\ cmd'.kind \in {"new", "edit"}) =>
          /\ cmd'.result = "TransportError" =>
                /\ store' = store
                /\ scheduled_tasks' = scheduled_tasks
                /\ timers' = timers
          /\ (scheduled_tasks' # scheduled_tasks \/ timers' # timers) =>
                /\ cmd.pc = "confirm"
                /\ cmd.rem.id \in 1..(nextId - 1)
                /\ cmd'.pc = "done"
                /\ cmd'.result = "ok"]_vars

\* the PATCH of an edit failed with a transport error while a timer waits
C14_Witness ==
    /\ cmd.kind = "edit" /\ cmd.result = "TransportError"
    /\ \E h \in DOMAIN timers : timers[h].pc = "wait"

\* the entry of timer h is removed or replaced by the step
Unfiled(h) ==
    \E id \in DOMAIN scheduled_tasks :
        /\ scheduled_tasks[id] = h
        /\ id \in DOMAIN scheduled_tasks' => scheduled_tasks'[id] # h

\* C15: a timer whose entry is cancelled while it still waits for its deadline
\* becomes cancelled, a cancelled timer stays cancelled, and only a timer
\* that waited until its deadline enters the fire action
C15_CancelledBeforeDeadlineNeverFires ==
    [][\A h \in DOMAIN timers :
          /\ (timers[h].pc = "wait" /\ Unfiled(h)) => timers'[h].pc = "cancelled"
          /\ timers[h].pc = "cancelled" => timers'[h].pc = "cancelled"
          /\ (timers'[h].pc \in Firing /\ timers[h].pc \notin Firing) =>
                /\ timers[h].pc = "wait"
                /\ timers'[h].pc = "send"
                /\ now >= timers[h].rem.expiration]_vars

\* a timer was cancelled, the clock has run to its end and the reminder it was
\* for has not been delivered
C15_Witness ==
    /\ now = MaxTime
    /\ \E h \in DOMAIN timers :
          /\ timers[h].pc = "cancelled"
          /\ ghost.sent[timers[h].rem.id] = 0

C17_NeverSchedulesLiveId ==
    [][/\ ready' # ready =>
            /\ \A id \in ready'.sched \ ready.sched :
                  id \notin DOMAIN scheduled_tasks
            /\ ~ /\ ready'.pc = "failed"
                 /\ ready'.i \in (1..Len(ready'.resp)) \ Overdue(ready')
       /\ NewCompletes => cmd.rem.id \notin DOMAIN scheduled_tasks]_vars

\* C18: a timer that is past its deadline wait and about to delete a record
\* that is no longer in the remote store does not end in an error, and no
\* entry is left for its id
C18_FireSurvivesDeletedRecord ==
    [][\A h \in DOMAIN timers :
          (/\ timers[h].pc = "del1"
           /\ timers[h].rem.id \notin DOMAIN store
           /\ timers'[h] # timers[h]) =>
              /\ timers'[h].pc # "failed"
              /\ timers[h].rem.id \notin DOMAIN scheduled_tasks']_vars

Started == view.pc \notin {"idle"}

\* C19: in a LinePaginator and in an ImagePaginator view alike, the current
\* page is always an index of a page: 0 <= current_page < number of pages
C19_PageIndexInRange ==
    Started => (view.n >= 1 /\ 0 <= view.current_page /\ view.current_page < view.n)

\* an ImagePaginator view of MaxPages pages waits for an event on its last page
C19_Witness ==
    /\ view.cls = "image" /\ view.pc = "wait"
    /\ view.n = MaxPages
    /\ view.current_page = view.n - 1

\* the transition table of the paginated view: page after event e on page p
\* when the last page index is l
TablePage(e, p, l) ==
    IF e = FIRST_EMOJI THEN 0
    ELSE IF e = LAST_EMOJI THEN l
    ELSE IF e = LEFT_EMOJI THEN (IF p > 0 THEN p - 1 ELSE p)
    ELSE IF e = RIGHT_EMOJI THEN (IF p < l THEN p + 1 ELSE p)
    ELSE p

\* C20: in a LinePaginator view, when the loop has taken an accepted first /
\* last / previous / next event (its reaction was removed) the current page
\* is the one of the transition table and the loop goes on; an accepted close
\* event ends the loop with the page unchanged; the page changes at no other
\* step
C20_LineFollowsTable ==
    [][(view.cls = "line" /\ view'.cls = "line") =>
          LET p == view.current_page
              l == view.n - 1
          IN  /\ (view.pc = "remove" /\ view'.pc \notin {"remove", "raised"}) =>
                    /\ view'.current_page = TablePage(view.reaction, p, l)
                    /\ view'.pc \in {"edit1", "wait"}
              /\ (view.pc = "wait" /\ view'.reaction = DELETE_EMOJI
                                   /\ view'.pc # "wait") =>
                    /\ view'.current_page = p
                    /\ view'.pc = "clear"
              /\ (view.pc # "remove" \/ view'.pc \in {"remove", "raised"}) =>
                    view'.current_page = p]_vars

\* a LinePaginator view of MaxPages pages has taken a next event and waits on
\* its last page, which the message shows
C20_Witness ==
    /\ view.cls = "line" /\ view.pc = "wait"
    /\ view.n = MaxPages
    /\ view.reaction = RIGHT_EMOJI
    /\ view.current_page = view.n - 1
    /\ message.desc = view.current_page /\ message.footer = view.n

InLoop == {"wait", "remove", "edit1", "edit2"}

\* C21: in an ImagePaginator view, when the loop has taken an accepted last
\* event (its reaction was removed) on a page that is not the last, the
\* current page is the last page and the loop goes on to render it; on the
\* last page the page stays and the loop waits again
C21_ImageLastGoesToLastPage ==
    [][(/\ view.cls = "image"
        /\ view.pc = "remove"
        /\ view.reaction = LAST_EMOJI
        /\ LAST_EMOJI \notin message'.byUser) =>
          LET l == view.n - 1 IN
          /\ view'.current_page = l
          /\ view'.pc = IF view.current_page = l THEN "wait" ELSE "edit1"]_vars

\* C22: a view of one page is sent without reactions and never enters the
\* event loop; a view of two or more pages has exactly the five reactions
\* first, previous, next, last, close, in that order, whenever it is in its
\* event loop, and on the way there the reactions attached are the first
\* ones of that order
C22_ReactionsOnlyForSeveralPages ==
    /\ (Started /\ view.n <= 1) =>
          /\ view.pc \in {"done", "raised"}
          /\ message.reactions = <<>>
    /\ view.pc \in InLoop =>
          /\ view.n >= 2
          /\ message.sent
          /\ message.reactions =
                <<FIRST_EMOJI, LEFT_EMOJI, RIGHT_EMOJI, LAST_EMOJI, DELETE_EMOJI>>
    /\ view.pc = "react" =>
          /\ view.n >= 2
          /\ message.sent
          /\ Len(message.reactions) < 5
          /\ message.reactions =
                SubSeq(<<FIRST_EMOJI, LEFT_EMOJI, RIGHT_EMOJI, LAST_EMOJI,
                         DELETE_EMOJI>>, 1, Len(message.reactions))

\* a view of one page was sent and paginate has returned
C22_Witness ==
    /\ view.pc = "done" /\ view.n = 1
    /\ view.args.lines # <<>>
    /\ message.sent /\ message.reactions = <<>>

\* the events the view must not react to
Unwanted(a, ev) ==
    \/ ~ev.here
    \/ ev.emoji \notin {FIRST_EMOJI, LEFT_EMOJI, RIGHT_EMOJI, LAST_EMOJI, DELETE_EMOJI}
    \/ ev.user = "bot"
    \/ (a.restrict_to_user /\ ev.user # "owner")

\* C23: when a reaction event reaches a waiting LinePaginator view and is on
\* another message, has another emoji than the five, is the bot's own or
\* (under restrict_to_user) is not the owner's, the step changes nothing but
\* the record of the event: not the page, not the message, the view goes on
\* waiting and its timeout runs on
C23_UnwantedEventsAreIgnored ==
    [][(/\ view.cls = "line"
        /\ view.pc = "wait"
        /\ view'.event # view.event
        /\ Unwanted(view.args, view'.event)) =>
          /\ view' = [view EXCEPT !.event = view'.event]
          /\ message' = message]_vars

\* a restricted LinePaginator view waits on its second page after it ignored
\* a guest's reaction to the next emoji on its message
C23_Witness ==
    /\ view.cls = "line" /\ view.pc = "wait"
    /\ view.args.restrict_to_user
    /\ view.event = [here |-> TRUE, emoji |-> RIGHT_EMOJI, user |-> "guest"]
    /\ view.current_page = 1

\* C24: a loop that has ended (by the close event or by the timeout) calls
\* clear_reactions with the message still showing the current page, and when
\* that call has returned the message has no reactions, still exists and
\* still shows that page with its page indicator
C24_EndClearsReactionsKeepsPage ==
    /\ view.pc \in {"wait", "clear"} =>
          /\ message.sent
          /\ message.desc = view.current_page
          /\ message.footer = view.current_page + 1
    /\ (view.pc = "done" /\ view.n >= 2) =>
          /\ message.sent
          /\ message.reactions = <<>>
          /\ message.byUser = {}
          /\ message.desc = view.current_page
          /\ message.footer = view.current_page + 1

\* a view has ended by the timeout on its last page: the reactions are gone
C24_Witness ==
    /\ view.pc = "done" /\ view.n = MaxPages
    /\ view.current_page = view.n - 1
    /\ view.waited = PageTimeout
    /\ message.reactions = <<>>

\* C25 as stated: the timeout is one deadline, PageTimeout after the loop
\* began: no event is taken by the loop at or after that time
C25_AbsoluteDeadline ==
    [][(view.pc = "wait" /\ view'.event # view.event /\ view'.pc # "wait") =>
          view.age < PageTimeout]_vars

\* C25 amended: every wait for an event has its own deadline, PageTimeout
\* after that wait began: a wait that follows an accepted event starts at 0,
\* an ignored event does not restart it, the wait ends by the timeout exactly
\* when PageTimeout has passed in it, and no event is taken by a wait whose
\* deadline has passed
C25_InactivityTimeout ==
    [][/\ view.waited <= PageTimeout
       /\ (view.pc # "wait" /\ view'.pc = "wait") => view'.waited = 0
       /\ (view.pc = "wait" /\ view'.pc = "wait") => view'.waited >= view.waited
       /\ (view.pc = "wait" /\ view'.pc # "wait") =>
             IF view'.event # view.event \/ view'.reaction # view.reaction
                \/ message' # message
             THEN view.waited < PageTimeout
             ELSE view.waited = PageTimeout /\ view'.pc = "clear"]_vars

\* a view waits for its next event longer after its loop began than the
\* timeout, having taken an event
C25_Witness ==
    /\ view.pc = "wait"
    /\ view.reaction # "none"
    /\ view.age > PageTimeout
    /\ view.waited < PageTimeout

\* C26: the event loop is never left through an exception
C26_LoopNeverRaises ==
    [][view.pc \in InLoop => view'.pc # "raised"]_vars

\* ---- packing, as seen in the pages of the view

\* page.split('\n'): the lines a page is made of
RECURSIVE Split(_)
Split(s) ==
    IF s = <<>> THEN << <<>> >>
    ELSE LET r == Split(Tail(s))
         IN  IF Head(s) = NEWLINE THEN << <<>> >> \o r
             ELSE << <<Head(s)>> \o Head(r) >> \o Tail(r)

\* the content units on a page: its lines but the prefix, the suffix and the
\* empty lines put between the units
Units(page) == SelectSeq(Split(page), LAMBDA p : p # <<>> /\ p[1] > 0)

\* the units of all pages in page order
RECURSIVE UnitsOf(_)
UnitsOf(pages) ==
    IF pages = <<>> THEN <<>> ELSE Units(Head(pages)) \o UnitsOf(Tail(pages))

\* a LinePaginator call with a non-empty input whose lines were all packed
PackedLines ==
    /\ view.pc # "idle"
    /\ view.cls = "line"
    /\ view.args.lines # <<>>
    /\ view.error \notin {"RuntimeError", "EmptyPaginatorEmbed"}

\* the limit of add_line on the length of a line
LineLimit(a) == a.max_size - Len(a.suffix) - Len(a.prefix) - 2

\* C27: packing never splits a unit across two pages, and the units of all
\* pages in page order are the input sequence: none lost, duplicated or
\* reordered
C27_PackingKeepsUnits == PackedLines => UnitsOf(view.pages) = view.args.lines

C27_Witness ==
    /\ PackedLines
    /\ message.sent
    /\ Len(view.args.lines) = MaxLines
    /\ Len(view.pages) >= 2
    /\ \E k \in 1..Len(view.pages) : Len(Units(view.pages[k])) >= 2

C29_OversizedUnitRaises ==
    (/\ view.pc # "idle"
     /\ view.cls = "line"
     /\ \E i \in 1..Len(view.args.lines) :
            Len(view.args.lines[i]) > LineLimit(view.args))
    => /\ view.pc = "raised"
       /\ view.error = "RuntimeError"
       /\ message = NoMessage

C29_Witness ==
    /\ view.pc = "raised"
    /\ view.error = "RuntimeError"
    /\ Len(view.args.lines) >= 2
    /\ Len(view.args.lines[1]) <= LineLimit(view.args)
    /\ message = NoMessage

\* C30: an empty input raises EmptyPaginatorEmbed and sends nothing when
\* exception_on_empty_embed is set; otherwise there is exactly one page, the
\* placeholder, sent without page indicator, reactions or loop
C30_EmptyInput ==
    (view.pc # "idle" /\ view.args.lines = <<>>) =>
        IF view.args.exception_on_empty_embed
        THEN /\ view.pc = "raised"
             /\ view.error = "EmptyPaginatorEmbed"
             /\ message = NoMessage
        ELSE /\ view.n = 1
             /\ Len(view.pages) = 1
             /\ SelectSeq(Split(view.pages[1]), LAMBDA p : p # <<>> /\ p[1] # PrefixChar /\ p[1] # SuffixChar)
                    = <<Placeholder>>
             /\ view.pc \in {"done", "raised"}
             /\ view.pc = "done" =>
                    /\ message.sent
                    /\ message.desc = 0
                    /\ message.footer = 0
                    /\ message.reactions = <<>>
             /\ view.pc = "raised" =>
                    /\ view.error = "HTTPException"
                    /\ message = NoMessage

C30_Witness ==
    /\ view.args.lines = <<>>
    /\ view.cls = "line"
    /\ ~view.args.exception_on_empty_embed
    /\ view.pc = "done"
    /\ message.sent

\* C32: whenever the loop of a LinePaginator view waits for the next event,
\* the message shows pages[current_page] with the page indicator
\* current_page + 1 of N, the five reactions of the bot are attached, and the
\* reaction of every accepted first / previous / next / last event has been
\* removed
C32_WaitingShowsCurrentPage ==
    (view.pc = "wait" /\ view.cls = "line") =>
        /\ message.sent
        /\ view.current_page \in 0..(view.n - 1)
        /\ message.desc = view.current_page
        /\ message.footer = view.current_page + 1
        /\ message.reactions = PAGINATION_EMOJI
        /\ message.byUser = {}

C32_Witness ==
    /\ view.pc = "wait"
    /\ view.cls = "line"
    /\ view.reaction \in {LAST_EMOJI, RIGHT_EMOJI}
    /\ view.current_page >= 1
    /\ message.desc = view.current_page

\* a timer of reminder id went through its notification and its remote delete
FiredByTimer(id) ==
    \E h \in DOMAIN timers :
        /\ timers[h].rem.id = id
        /\ timers[h].pc \in {"del2", "done", "failed"}

\* C33: when the timer of a reminder fires while an edit of the same reminder
\* is suspended between its remote update and its reschedule step, the edit
\* leaves no scheduler entry for the reminder, which is gone from the store
\* and has been notified
C33_EditRaceLeavesNoOrphan ==
    [][(/\ cmd.kind = "edit"
        /\ cmd.pc = "confirm"
        /\ cmd'.pc = "done"
        /\ cmd.rem["id"] \notin DOMAIN store
        /\ ghost.sent[cmd.rem["id"]] >= 1
        /\ FiredByTimer(cmd.rem["id"]))
       => cmd.rem["id"] \notin DOMAIN scheduled_tasks']_vars

\* C34: firing deletes the remote record only after the notification was
\* delivered: a failing channel.send leaves the store as it is, a fire flow
\* reaches its remote delete only with the notification delivered, and the
\* next on_ready gets every reminder still in the store
C34_DeleteOnlyAfterDelivery ==
    [][/\ \A h \in DOMAIN timers :
             (timers[h].pc = "send" /\ timers'[h].pc = "failed") => store' = store
       /\ (ready.pc = "send" /\ ready'.pc = "failed") => store' = store
       /\ \A h \in DOMAIN timers' :
             timers'[h].pc \in {"del1", "del2"} => ghost'.sent[timers'[h].rem.id] >= 1
       /\ ready'.pc = "del" => ghost'.sent[ready'.resp[ready'.i].id] >= 1
       /\ (ready.pc = "get" /\ ready'.pc \notin {"get", "failed"})
             => ready'.resp = ActiveReminders]_vars

C34_Witness ==
    \E h \in DOMAIN timers :
        LET id == timers[h].rem.id IN
        /\ timers[h].pc = "failed"
        /\ ghost.sent[id] = 0
        /\ id \in DOMAIN store
        /\ ready.runs = 2
        /\ ready.pc = "send"
        /\ ready.resp[ready.i].id = id

\* ---- starboard

\* C31: when get_messages finds the starboard message of a message through
\* the remote store, after a cache miss, it returns that message and
\* star_msg_map holds the pair when it returns
C31_CacheMissBackfills ==
    [][\A h \in DOMAIN handlers :
          (/\ handlers[h].pc = "remote"
           /\ handlers'[h].pc # "remote"
           /\ Alive(handlers[h].star))
          => /\ handlers'[h].pc = "raised" \/ handlers'[h].star = handlers[h].star
             /\ star_msg_map'.kind = "dict"
             /\ handlers[h].m \in DOMAIN star_msg_map'.map
             /\ star_msg_map'.map[handlers[h].m] = handlers[h].star]_vars

\* C35: a handler that has posted a new starboard message for an original
\* message holds the only message the starboard channel shows for it
C35_OnePostPerMessage ==
    \A h \in DOMAIN handlers :
        (handlers[h].pc = "post" /\ handlers[h].from = "new")
        => Cardinality({k \in DOMAIN board :
                           board[k].orig = handlers[h].m /\ board[k].alive}) = 1

\* C36: star_msg_map is always a mapping, empty after a successful
\* delete-all, and no reaction handler fails on looking it up
C36_CacheStaysAMapping ==
    /\ star_msg_map.kind = "dict"
    /\ wipe.res = "ok" => \A h \in DOMAIN handlers : handlers[h].error # "IndexError"

\* C37: the remote delete of all entries is issued only after the invoking
\* owner added YES to the prompt; NO, a timeout and ignored events leave the
\* remote store and the cache as they are; the cache is cleared only after
\* the remote delete succeeded
C37_DeleteAllNeedsYesOnPrompt ==
    [][/\ (wipe.pc = "wait" /\ wipe'.pc = "delete")
          => wipe'.event = [here |-> TRUE, emoji |-> YES_EMOJI, user |-> "author"]
       /\ (wipe.pc = "wait" /\ wipe' # wipe /\ wipe'.pc \in {"wait", "done"})
          => (site' = site /\ star_msg_map' = star_msg_map)
       /\ (star_msg_map.kind = "dict" /\ star_msg_map'.kind = "list")
          => (wipe.pc = "ack" /\ site = <<>>)]_vars

\* C38: the DELETE request of delete_starboard_entry carries the id of an
\* original message
C38_DeleteCarriesOriginalId ==
    entry.sent => entry.deleted \in 1..MaxMsgs

====
